---- MODULE Spec2Model ----
(***************************************************************************)
(* Perception-and-action automation engine of daxiak001/xiaoliu:           *)
(*   skills/action/intelligent_retry_manager.py  IntelligentRetryManager   *)
(*   skills/action/action_system.py              ActionSystem              *)
(*   skills/action/mouse_controller.py           MouseController           *)
(*   skills/vision/multi_ocr_manager.py          MultiOCRManager           *)
(*   skills/vision/ocr_engine.py                 OCREngine                 *)
(*   skills/vision/element_detector.py           ElementDetector           *)
(* Each component has its own specification (SpecRetry, SpecHistory, ...)  *)
(* over the variables of that component; the other variables stay at       *)
(* their constructed values.                                                *)
(***************************************************************************)
EXTENDS Integers, Sequences, FiniteSets, TLC

VARIABLES
    \* ---- IntelligentRetryManager (self.*) and one execute_with_retry run
    max_retries,      \* self.max_retries
    failure_stats,    \* self.failure_stats: operation_type -> counters
    retry_pc,         \* "idle" | "loop" (inside the for loop) | "returned"
    context,          \* the RetryContext of the run
    attempt,          \* loop variable of `for attempt in range(...)`
    last_result,      \* local last_result (NoneVal = Python None)
    retry_ret,        \* value returned by execute_with_retry
    events,           \* what the run did, in program order
    op_outcomes,      \* what operation(context) did at each invocation
    wait_time,        \* last backoff wait, in milliseconds
    runs,             \* number of runs started (model bound only)
    op_source,        \* "callable": operation passed by the caller;
                      \* "action_system": operation_func of ActionSystem
    action_args,      \* how the kwargs of the ActionSystem call fit the handler
    \* ---- ActionSystem
    action_history,   \* self.action_history
    clock,            \* time.time() of the records, one tick per call
    action_result,    \* what the last execute_action call returned
    action_calls,     \* number of execute_action calls (model bound only)
    \* ---- MouseController and one click_with_retry call
    mouse_available,  \* MOUSE_AVAILABLE (pyautogui and pywin32 imported)
    click_pc,         \* "idle" | "loop" | "returned" | "raised"
    click_target,     \* the (x, y) of the call
    click_max,        \* max_retries after the None default is resolved
    click_attempt,    \* loop variable
    click_results,    \* what each self.click(x, y, button) returned
    click_events,     \* "sleep", "click" and OS calls, in program order
    click_ret,        \* the value click_with_retry returned
    \* ---- ElementDetector: one call on a list of candidate elements
    dd_pc,            \* "in": candidates collected; "out": result returned
    dd_input,         \* the concatenated strategy outputs
    dd_output,        \* the list returned
    dd_op,            \* which operation produced dd_output
    \* ---- MultiOCRManager
    engines,          \* names of the engines that were loaded
    engine_stats,     \* engine -> [success, total, avg_time]
    ocr_pc,           \* "idle", "trying" (inside extract_text's loop), "done"
    ocr_order,        \* engines_to_try of the running call
    ocr_pos,          \* index of the loop in ocr_order
    ocr_invoked,      \* the engine invocations of the running call, with the
                      \* statistics before and after each
    ocr_ret,          \* the dict the last finished extract_text returned
    ocr_calls,        \* number of calls of extract_text
    ocr_best,         \* what get_best_engine returned on the present statistics
    ocr_prefer,       \* prefer_engine and preferred_engines of the call
    \* ---- OCREngine
    OCR_AVAILABLE,    \* the module flag
    rs_pc,            \* "in": table given; "out": result returned
    rs_data,          \* the table image_to_data gives for the image
    rs_results,       \* the list returned
    rs_op,            \* which operation produced rs_results
    \* ---- IntelligentRetryManager._calculate_wait_time over the attempts of a run
    bo_type,          \* the failure type of every attempt of the run
    bo_attempt,       \* the attempt the next wait is computed for
    bo_prev,          \* the wait computed for attempt bo_attempt - 2 (-1: none)
    bo_wait,          \* the wait computed for attempt bo_attempt - 1 (-1: none)
    \* ---- ActionSystem.execute_sequence
    stop_on_failure,  \* config.get('stop_on_failure', False)
    seq_pc,           \* "idle", "loop", "returned"
    seq_actions,      \* the list of action dicts given
    seq_index,        \* the loop's index i (from 1)
    seq_results,      \* results
    seq_executed,     \* the actions handed to execute_action: index, sleep after
    \* ---- VisionSystem.locate_element_precisely
    loc_pc,           \* "in", "out"
    loc_elements,     \* what find_element returned
    loc_ret,          \* the value returned
    \* ---- IntelligentRetryManager._analyze_failure on its own
    af_pc,            \* "in", "out"
    af_result,        \* the OperationResult given
    af_type           \* the FailureType returned

retryVars == <<max_retries, failure_stats, retry_pc, context, attempt,
               last_result, retry_ret, events, op_outcomes, wait_time, runs,
               op_source, action_args>>
actionVars == <<action_history, clock, action_result, action_calls>>
mouseVars == <<mouse_available, click_pc, click_target, click_max, click_attempt,
               click_results, click_events, click_ret>>
detectorVars == <<dd_pc, dd_input, dd_output, dd_op>>
ocrVars == <<engines, engine_stats, ocr_pc, ocr_order, ocr_pos, ocr_invoked, ocr_ret,
             ocr_calls, ocr_best, ocr_prefer>>
readVars == <<OCR_AVAILABLE, rs_pc, rs_data, rs_results, rs_op>>
backoffVars == <<bo_type, bo_attempt, bo_prev, bo_wait>>
sequenceVars == <<stop_on_failure, seq_pc, seq_actions, seq_index, seq_results,
                  seq_executed>>
locateVars == <<loc_pc, loc_elements, loc_ret>>
analyzeVars == <<af_pc, af_result, af_type>>

----------------------------------------------------------------------------
(* Python strings are sequences of one-character strings, so that `in`     *)
(* and lower() are computed and not assumed.  A token in capitals stands   *)
(* for a run of non-ASCII characters of the source literal.                *)

Contains(s, k) ==
    \E i \in 0..(Len(s) - Len(k)) : SubSeq(s, i + 1, i + Len(k)) = k

LowerChar(c) ==
    CASE c = "T" -> "t"
      [] c = "E" -> "e"
      [] c = "C" -> "c"
      [] c = "N" -> "n"
      [] c = "O" -> "o"
      [] c = "R" -> "r"
      [] c = "M" -> "m"
      [] c = "P" -> "p"
      [] c = "A" -> "a"
      [] c = "L" -> "l"
      [] c = "I" -> "i"
      [] c = "K" -> "k"
      [] OTHER   -> c

lower(s) == [i \in 1..Len(s) |-> LowerChar(s[i])]

kw_not_found   == <<"n","o","t"," ","f","o","u","n","d">>
kw_element     == <<"e","l","e","m","e","n","t">>
kw_click       == <<"c","l","i","c","k">>
kw_mouse       == <<"m","o","u","s","e">>
kw_ocr         == <<"o","c","r">>
kw_text        == <<"t","e","x","t">>
kw_recognition == <<"r","e","c","o","g","n","i","t","i","o","n">>
kw_timeout     == <<"t","i","m","e","o","u","t">>
kw_time        == <<"t","i","m","e">>
kw_network     == <<"n","e","t","w","o","r","k">>
kw_connection  == <<"c","o","n","n","e","c","t","i","o","n">>
kw_permission  == <<"p","e","r","m","i","s","s","i","o","n">>
kw_access      == <<"a","c","c","e","s","s">>

msg_op_success == <<"ZH_OPERATION_SUCCEEDED">>      \* "操作成功"
msg_op_failed  == <<"ZH_OPERATION_FAILED">>         \* "操作失败"
msg_exc_prefix == <<"ZH_EXECUTION_EXCEPTION", ":", " ">>  \* "执行异常: "

----------------------------------------------------------------------------
(* FailureType, OperationResult, RetryContext                               *)

ELEMENT_NOT_FOUND == "element_not_found"
CLICK_FAILED      == "click_failed"
INPUT_FAILED      == "input_failed"
OCR_FAILED        == "ocr_failed"
TIMEOUT           == "timeout"
NETWORK_ERROR     == "network_error"
PERMISSION_DENIED == "permission_denied"
UNKNOWN           == "unknown"
NoType            == "None"     \* failure_type: Optional[FailureType] = None

FailureType == {ELEMENT_NOT_FOUND, CLICK_FAILED, INPUT_FAILED, OCR_FAILED,
                TIMEOUT, NETWORK_ERROR, PERMISSION_DENIED, UNKNOWN}

NoneVal == [none |-> TRUE]
IsNone(r) == "none" \in DOMAIN r

OperationResult(success, message, data, failure_type) ==
    [success |-> success, message |-> message, data |-> data,
     failure_type |-> failure_type]

RetryContext(operation_type, parameters) ==
    [operation_type |-> operation_type, parameters |-> parameters,
     last_error |-> <<>>, has_error |-> FALSE, failure_history |-> <<>>]

(* What one call operation(context) does.  kind "result": it returns an    *)
(* OperationResult; kind "value": it returns some other object, whose      *)
(* truth value is `truthy` (data names the object); kind "raise": it       *)
(* raises Exception(message).                                              *)
OpResult(success, message, failure_type) ==
    [kind |-> "result", success |-> success, truthy |-> TRUE,
     message |-> message, data |-> "payload", failure_type |-> failure_type]
OpValue(truthy, data) ==
    [kind |-> "value", success |-> FALSE, truthy |-> truthy,
     message |-> <<>>, data |-> data, failure_type |-> NoType]
OpRaise(message) ==
    [kind |-> "raise", success |-> FALSE, truthy |-> FALSE,
     message |-> message, data |-> "exception", failure_type |-> NoType]

----------------------------------------------------------------------------
(* IntelligentRetryManager                                                  *)

default_max_retries == 5
base_wait_time_ms   == 1000
max_wait_time_ms    == 30000

(* _analyze_failure testing the click keywords before the element ones.  *)
analyze_failure_click_first(result) ==
    IF result.failure_type # NoType THEN result.failure_type
    ELSE LET message == lower(result.message) IN
         IF Contains(message, kw_click) \/ Contains(message, kw_mouse)
           THEN CLICK_FAILED
         ELSE IF Contains(message, kw_not_found) \/ Contains(message, kw_element)
           THEN ELEMENT_NOT_FOUND
         ELSE IF Contains(message, kw_ocr) \/ Contains(message, kw_text)
                 \/ Contains(message, kw_recognition)
           THEN OCR_FAILED
         ELSE IF Contains(message, kw_timeout) \/ Contains(message, kw_time)
           THEN TIMEOUT
         ELSE IF Contains(message, kw_network) \/ Contains(message, kw_connection)
           THEN NETWORK_ERROR
         ELSE IF Contains(message, kw_permission) \/ Contains(message, kw_access)
           THEN PERMISSION_DENIED
         ELSE UNKNOWN

(* _analyze_failure: the explicit tag, else the keyword tests in order.   *)
analyze_failure(result) ==
    IF result.failure_type # NoType THEN result.failure_type
    ELSE LET message == lower(result.message) IN
         IF Contains(message, kw_not_found) \/ Contains(message, kw_element)
           THEN ELEMENT_NOT_FOUND
         ELSE IF Contains(message, kw_click) \/ Contains(message, kw_mouse)
           THEN CLICK_FAILED
         ELSE IF Contains(message, kw_ocr) \/ Contains(message, kw_text)
                 \/ Contains(message, kw_recognition)
           THEN OCR_FAILED
         ELSE IF Contains(message, kw_timeout) \/ Contains(message, kw_time)
           THEN TIMEOUT
         ELSE IF Contains(message, kw_network) \/ Contains(message, kw_connection)
           THEN NETWORK_ERROR
         ELSE IF Contains(message, kw_permission) \/ Contains(message, kw_access)
           THEN PERMISSION_DENIED
         ELSE UNKNOWN


(* context.parameters is a dict: a function whose domain is the set of     *)
(* keys present.  Fractions are scaled to integers: tolerances,            *)
(* expansions, thresholds and generic_wait_time in tenths, pre_click_wait  *)
(* and click_duration in hundredths of a second, input_delay in 1/2560 s   *)
(* (so that 0.1 * 1.5^k stays integral up to the 1.0 cap).                 *)
NoParameters == [k \in {} |-> 0]
Has(p, k) == k \in DOMAIN p
Put(p, k, v) == (k :> v) @@ p
Max2(a, b) == IF a >= b THEN a ELSE b
Min2(a, b) == IF a <= b THEN a ELSE b

detection_methods == <<"ocr_text", "image_match", "coordinate_estimate", "fuzzy_match">>
click_methods == <<"single", "double", "right", "middle">>
input_methods == <<"type", "paste", "send_keys">>
ocr_engines == <<"paddleocr", "easyocr", "tesseract", "builtin">>
preprocessing_methods == <<"none", "enhance_contrast", "denoise", "sharpen", "binarize">>

retry_element_search(p, a) ==
    LET p1 == IF ~Has(p, "search_tolerance") THEN Put(p, "search_tolerance", 8)
              ELSE Put(p, "search_tolerance", Max2(5, p["search_tolerance"] - 1))
        p2 == IF a < Len(detection_methods)
              THEN Put(p1, "detection_method", detection_methods[a + 1]) ELSE p1
        p3 == IF ~Has(p2, "search_area_expansion") THEN Put(p2, "search_area_expansion", 10)
              ELSE Put(p2, "search_area_expansion", p2["search_area_expansion"] + 2)
        p4 == Put(p3, "force_new_screenshot", TRUE)
    IN IF a >= 2
       THEN Put(Put(p4, "try_scroll", TRUE), "scroll_direction",
                IF a % 2 = 0 THEN "down" ELSE "up")
       ELSE p4

retry_click_operation(p, a, off) ==
    LET p1 == IF ~Has(p, "click_offset") THEN Put(p, "click_offset", <<0, 0>>)
              ELSE Put(p, "click_offset", off)
        p2 == IF a < Len(click_methods)
              THEN Put(p1, "click_method", click_methods[a + 1]) ELSE p1
        p3 == Put(p2, "pre_click_wait", 50 + a * 20)
    IN Put(p3, "click_duration", 10 + a * 5)

IndexOf(seq, v) == CHOOSE i \in 1..Len(seq) : seq[i] = v

retry_input_operation(p, a) ==
    LET p1 == Put(p, "clear_before_input", TRUE)
        current_delay == IF Has(p1, "input_delay") THEN p1["input_delay"] ELSE 256
        p2 == Put(p1, "input_delay", Min2((current_delay * 3) \div 2, 2560))
        p3 == Put(p2, "refocus", TRUE)
        current_method == IF Has(p3, "input_method") THEN p3["input_method"] ELSE "type"
    IN IF \E i \in 1..Len(input_methods) : input_methods[i] = current_method
       THEN Put(p3, "input_method",
                input_methods[(IndexOf(input_methods, current_method) % Len(input_methods)) + 1])
       ELSE Put(p3, "input_method", "type")

retry_ocr_recognition(p, a) ==
    LET p1 == IF a < Len(ocr_engines)
              THEN Put(p, "preferred_ocr_engine", ocr_engines[a + 1]) ELSE p
        p2 == IF a < Len(preprocessing_methods)
              THEN Put(p1, "image_preprocessing", preprocessing_methods[a + 1]) ELSE p1
        p3 == IF ~Has(p2, "ocr_region_expansion") THEN Put(p2, "ocr_region_expansion", 10)
              ELSE Put(p2, "ocr_region_expansion", p2["ocr_region_expansion"] + 1)
    IN IF ~Has(p3, "confidence_threshold") THEN Put(p3, "confidence_threshold", 8)
       ELSE Put(p3, "confidence_threshold", Max2(3, p3["confidence_threshold"] - 1))

retry_with_longer_wait(p, a) ==
    LET p1 == IF ~Has(p, "operation_timeout") THEN Put(p, "operation_timeout", 30)
              ELSE Put(p, "operation_timeout", p["operation_timeout"] + 10)
    IN IF ~Has(p1, "element_wait_time") THEN Put(p1, "element_wait_time", 5)
       ELSE Put(p1, "element_wait_time", p1["element_wait_time"] + 3)

retry_network_operation(p, a) ==
    LET p1 == IF ~Has(p, "connection_timeout") THEN Put(p, "connection_timeout", 10)
              ELSE Put(p, "connection_timeout", p["connection_timeout"] + 5)
    IN Put(p1, "enable_reconnect", TRUE)

retry_permission_operation(p, a) ==
    Put(Put(p, "request_elevated_privileges", TRUE), "use_alternative_method", TRUE)

retry_generic(p, a) ==
    LET p1 == IF ~Has(p, "generic_wait_time") THEN Put(p, "generic_wait_time", 10)
              ELSE Put(p, "generic_wait_time", p["generic_wait_time"] + 5)
    IN Put(p1, "verbose_logging", TRUE)

(* off is the pair random.randint(-5, 5) draws in the click strategy.      *)
apply_retry_strategy(p, failure_type, a, off) ==
    CASE failure_type = ELEMENT_NOT_FOUND -> retry_element_search(p, a)
      [] failure_type = CLICK_FAILED      -> retry_click_operation(p, a, off)
      [] failure_type = INPUT_FAILED      -> retry_input_operation(p, a)
      [] failure_type = OCR_FAILED        -> retry_ocr_recognition(p, a)
      [] failure_type = TIMEOUT           -> retry_with_longer_wait(p, a)
      [] failure_type = NETWORK_ERROR     -> retry_network_operation(p, a)
      [] failure_type = PERMISSION_DENIED -> retry_permission_operation(p, a)
      [] failure_type = UNKNOWN           -> retry_generic(p, a)
      [] OTHER                            -> retry_generic(p, a)

(* Multiplier of the failure type, in tenths.                              *)
type_multipliers(failure_type) ==
    CASE failure_type = ELEMENT_NOT_FOUND -> 5
      [] failure_type = CLICK_FAILED      -> 3
      [] failure_type = OCR_FAILED        -> 10
      [] failure_type = TIMEOUT           -> 20
      [] failure_type = NETWORK_ERROR     -> 30
      [] failure_type = PERMISSION_DENIED -> 15
      [] failure_type = UNKNOWN           -> 10
      [] OTHER                            -> 10

calculate_wait_time_linear(a, failure_type, jitter) ==
    Min2((base_wait_time_ms * (a + 1) * type_multipliers(failure_type) * jitter)
            \div 1000,
         max_wait_time_ms)

(* jitter is random.uniform(0.8, 1.2) in percent; the result is in ms:     *)
(* 1000 ms * 2^a * (m/10) * (jitter/100) = 2^a * m * jitter.               *)
calculate_wait_time(a, failure_type, jitter) ==
    Min2((base_wait_time_ms * (2 ^ a) * type_multipliers(failure_type) * jitter)
            \div 1000,
         max_wait_time_ms)

exception_wait_time(a) == Min2(base_wait_time_ms * (2 ^ a), max_wait_time_ms)

NewStats == [total_attempts |-> 0, successful_attempts |-> 0,
             failed_attempts |-> 0, total_retries |-> 0]

record_success(stats, operation_type, attempts) ==
    LET s == IF operation_type \in DOMAIN stats THEN stats[operation_type] ELSE NewStats
    IN Put(stats, operation_type,
           [s EXCEPT !.total_attempts = @ + 1,
                     !.successful_attempts = @ + 1,
                     !.total_retries = @ + attempts])

record_failure(stats, operation_type) ==
    LET s == IF operation_type \in DOMAIN stats THEN stats[operation_type] ELSE NewStats
    IN Put(stats, operation_type,
           [s EXCEPT !.total_attempts = @ + 1, !.failed_attempts = @ + 1])

(* sum(stats.get(field, 0) for stats in self.failure_stats.values())       *)
RECURSIVE sum_stats(_, _, _)
sum_stats(stats, keys, field) ==
    IF keys = {} THEN 0
    ELSE LET k == CHOOSE x \in keys : TRUE
         IN stats[k][field] + sum_stats(stats, keys \ {k}, field)

total_operations(stats) == sum_stats(stats, DOMAIN stats, "total_attempts")
total_success(stats) == sum_stats(stats, DOMAIN stats, "successful_attempts")

(* optimize_retry_parameters with the upper limit one too high.            *)
optimize_retry_parameters_cap9(stats, retries) ==
    IF total_operations(stats) < 10 THEN retries
    ELSE IF 10 * total_success(stats) < 7 * total_operations(stats)
      THEN Min2(retries + 1, 9)
    ELSE IF 100 * total_success(stats) > 95 * total_operations(stats)
      THEN Max2(retries - 1, 3)
    ELSE retries

(* optimize_retry_parameters: the new self.max_retries.  success_rate is   *)
(* total_success / total_operations; s/t < 0.7 iff 10 s < 7 t and          *)
(* s/t > 0.95 iff 100 s > 95 t (a quotient equal to 7/10 or 19/20 rounds   *)
(* to the same double as the literal).                                     *)
optimize_retry_parameters(stats, retries) ==
    IF total_operations(stats) < 10 THEN retries
    ELSE IF 10 * total_success(stats) < 7 * total_operations(stats)
      THEN Min2(retries + 1, 8)
    ELSE IF 100 * total_success(stats) > 95 * total_operations(stats)
      THEN Max2(retries - 1, 3)
    ELSE retries


----------------------------------------------------------------------------
(* ActionSystem.execute_action                                              *)

CLICK == "click"
TYPE == "type"
KEY_PRESS == "key_press"
HOTKEY == "hotkey"
DRAG == "drag"
SCROLL == "scroll"
WINDOW_OPEN == "window_open"
WINDOW_CLOSE == "window_close"
WINDOW_SWITCH == "window_switch"
WINDOW_RESIZE == "window_resize"
WAIT == "wait"

ActionType == {CLICK, TYPE, KEY_PRESS, HOTKEY, DRAG, SCROLL, WINDOW_OPEN,
               WINDOW_CLOSE, WINDOW_SWITCH, WINDOW_RESIZE, WAIT}

(* Handlers that forward **kwargs to the controller method.                *)
ForwardsKwargs == ActionType \ {SCROLL, WAIT}
(* Handlers that test the controller's boolean return value.               *)
ChecksReturn == {WINDOW_OPEN, WINDOW_CLOSE, WINDOW_SWITCH, WINDOW_RESIZE}

max_history  == 1000
keep_history == 500

(* The handler _execute_<type> called with kwargs.  args: "ok" (they fit  *)
(* the handler), "missing" (a required parameter is absent: the call itself    *)
(* raises TypeError, outside the handler's try), "extra" (an additional    *)
(* keyword the controller method does not take).  ctl: what the controller *)
(* does when called: returns "true" or "false", or "raise"s.               *)
(* Result: raised = the exception escaped the handler; called = the        *)
(* controller method ran.                                                  *)
execute_handler(action_type, args, ctl) ==
    IF args = "missing"
      THEN [raised |-> TRUE, success |-> FALSE, called |-> FALSE, exception |-> TRUE]
    ELSE IF args = "extra" /\ action_type \in ForwardsKwargs
      THEN [raised |-> FALSE, success |-> FALSE, called |-> FALSE, exception |-> TRUE]
    ELSE IF ctl = "raise"
      THEN [raised |-> FALSE, success |-> FALSE, called |-> TRUE, exception |-> TRUE]
    ELSE IF action_type \in ChecksReturn
      THEN [raised |-> FALSE, success |-> (ctl = "true"), called |-> TRUE,
            exception |-> FALSE]
    ELSE [raised |-> FALSE, success |-> TRUE, called |-> TRUE, exception |-> FALSE]

record_action_unbounded(history, action_type, args, success, now) ==
    Append(history, [action_type |-> action_type, params |-> args,
                     success |-> success, timestamp |-> now])

record_action(history, action_type, args, success, now) ==
    LET h == Append(history, [action_type |-> action_type, params |-> args,
                              success |-> success, timestamp |-> now])
    IN IF Len(h) > max_history
       THEN SubSeq(h, Len(h) - keep_history + 1, Len(h))
       ELSE h

(* execute_action without its outer except clause.                         *)
execute_action_uncaught(history, action_type, args, ctl, now) ==
    IF action_type \notin ActionType
      THEN [success |-> FALSE, raised |-> FALSE, escaped |-> FALSE, exception |-> FALSE,
            history |-> record_action(history, action_type, args, FALSE, now)]
    ELSE LET r == execute_handler(action_type, args, ctl) IN
         IF r.raised
           THEN [success |-> FALSE, raised |-> TRUE, escaped |-> TRUE,
                 exception |-> TRUE, history |-> history]
           ELSE [success |-> r.success, raised |-> FALSE, escaped |-> FALSE,
                 exception |-> r.exception,
                 history |-> record_action(history, action_type, args, r.success, now)]

(* execute_action as a function of the history: the ActionResult's success *)
(* and the history afterwards.  raised: an exception reached the outer     *)
(* except clause; escaped: an exception left execute_action; exception: an *)
(* exception was raised anywhere during the call.                          *)
execute_action(history, action_type, args, ctl, now) ==
    IF action_type \notin ActionType
      THEN [success |-> FALSE, raised |-> FALSE, escaped |-> FALSE, exception |-> FALSE,
            history |-> record_action(history, action_type, args, FALSE, now)]
    ELSE LET r == execute_handler(action_type, args, ctl) IN
         IF r.raised
           THEN [success |-> FALSE, raised |-> TRUE, escaped |-> FALSE,
                 exception |-> TRUE, history |-> history]
           ELSE [success |-> r.success, raised |-> FALSE, escaped |-> FALSE,
                 exception |-> r.exception,
                 history |-> record_action(history, action_type, args, r.success, now)]

(* What a caller of execute_action holds afterwards.                       *)
ActionOutcome(r) ==
    [success |-> r.success, raised |-> r.raised, escaped |-> r.escaped,
     exception |-> r.exception]

(* The object operation_func hands to execute_with_retry: execute_action's *)
(* ActionResult has a `success` attribute and is returned as it is.        *)
ActionResultValue(success) ==
    [kind |-> "value", success |-> success, truthy |-> TRUE,
     message |-> <<>>, data |-> "ActionResult", failure_type |-> NoType]


----------------------------------------------------------------------------
(* IntelligentRetryManager.execute_with_retry, one loop iteration per step. *)
(* A run state is the record of the manager's statistics and the locals of *)
(* the running call.                                                        *)

msg_still_failing == <<"ZH_STILL_FAILING_AFTER_RETRIES">>

range_stop == max_retries + 1                 \* range(self.max_retries + 1)
is_last_attempt(a) == a >= max_retries        \* if attempt >= self.max_retries
next_attempt_stuck(a) == a
next_attempt(a) == a + 1                      \* the for loop's next index

run_state ==
    [pc |-> retry_pc, attempt |-> attempt, stats |-> failure_stats,
     context |-> context, last_result |-> last_result, ret |-> retry_ret,
     events |-> events, outcomes |-> op_outcomes, wait |-> wait_time]

(* After the loop: _record_failure and return.                             *)
loop_exit(st) ==
    [st EXCEPT !.stats = record_failure(st.stats, st.context.operation_type),
               !.ret = IF IsNone(st.last_result)
                       THEN OperationResult(FALSE, msg_still_failing, "None", UNKNOWN)
                       ELSE st.last_result,
               !.pc = "returned",
               !.events = @ \o <<"record_failure", "return">>]

(* The loop body ended without return or break.                            *)
loop_continue(st) ==
    IF next_attempt(st.attempt) < range_stop
    THEN [st EXCEPT !.attempt = next_attempt(st.attempt)]
    ELSE loop_exit(st)

(* The tail of the try block once last_result holds a failed result.       *)
handle_failure(st, jitter, off) ==
    IF is_last_attempt(st.attempt) THEN loop_exit(st)
    ELSE LET failure_type == analyze_failure(st.last_result)
             w == calculate_wait_time(st.attempt, failure_type, jitter)
         IN loop_continue(
              [st EXCEPT !.context.failure_history = Append(@, failure_type),
                         !.context.parameters =
                              apply_retry_strategy(@, failure_type, st.attempt, off),
                         !.wait = w,
                         !.events = @ \o <<"classify", "strategy">>
                                      \o (IF w > 0 THEN <<"sleep">> ELSE <<>>)])

(* The except branch.                                                      *)
handle_exception(st, message) ==
    LET st1 == [st EXCEPT !.context.last_error = message,
                          !.context.has_error = TRUE,
                          !.last_result = OperationResult(FALSE, msg_exc_prefix \o message,
                                                          "None", UNKNOWN),
                          !.events = Append(@, "except")]
    IN IF is_last_attempt(st.attempt) THEN loop_exit(st1)
       ELSE loop_continue([st1 EXCEPT !.wait = exception_wait_time(st.attempt),
                                      !.events = Append(@, "sleep")])

(* The operation returned an OperationResult with success set.             *)
return_success_continues(st, o) ==
    loop_continue(
      [st EXCEPT !.stats = record_success(@, st.context.operation_type, st.attempt),
                 !.ret = OperationResult(TRUE, o.message, o.data, o.failure_type),
                 !.events = Append(@, "record_success")])

return_success(st, o) ==
    [st EXCEPT !.stats = record_success(@, st.context.operation_type, st.attempt),
               !.ret = OperationResult(TRUE, o.message, o.data, o.failure_type),
               !.pc = "returned",
               !.events = @ \o <<"record_success", "return">>]

(* The operation returned a truthy object that is no OperationResult.      *)
return_truthy(st, o) ==
    [st EXCEPT !.ret = OperationResult(TRUE, msg_op_success, o.data, NoType),
               !.pc = "returned",
               !.events = Append(@, "return")]

(* One iteration: operation(context) does o.                               *)
loop_body(st, o, jitter, off) ==
    LET st0 == [st EXCEPT !.events = Append(@, "invoke"),
                          !.outcomes = Append(@, o)]
    IN CASE o.kind = "raise" -> handle_exception(st0, o.message)
         [] o.kind = "result" /\ o.success -> return_success(st0, o)
         [] o.kind = "result" /\ ~o.success ->
              handle_failure([st0 EXCEPT !.last_result =
                                OperationResult(FALSE, o.message, o.data, o.failure_type)],
                             jitter, off)
         [] o.kind = "value" /\ o.truthy -> return_truthy(st0, o)
         [] OTHER ->
              handle_failure([st0 EXCEPT !.last_result =
                                OperationResult(FALSE, msg_op_failed, "None", NoType)],
                             jitter, off)

SetRunState(st) ==
    /\ retry_pc' = st.pc
    /\ attempt' = st.attempt
    /\ failure_stats' = st.stats
    /\ context' = st.context
    /\ last_result' = st.last_result
    /\ retry_ret' = st.ret
    /\ events' = st.events
    /\ op_outcomes' = st.outcomes
    /\ wait_time' = st.wait

NewRun(operation_type, parameters) ==
    [run_state EXCEPT !.pc = "loop", !.attempt = 0,
                      !.context = RetryContext(operation_type, parameters),
                      !.last_result = NoneVal, !.ret = NoneVal,
                      !.events = <<>>, !.outcomes = <<>>, !.wait = 0]


----------------------------------------------------------------------------
(* MouseController.click and click_with_retry                               *)

ScreenWidth  == 3      \* pyautogui.size() of the model's screen
ScreenHeight == 2
default_retry_count == 3            \* config['retry_count']

validate_coordinates(x, y) ==
    ~(x < 0 \/ y < 0 \/ x >= ScreenWidth \/ y >= ScreenHeight)

(* click(x, y, button).  move_os / click_os: the OS-level moveTo / click   *)
(* call goes through (it raises otherwise, which click reports as False).  *)
(* os is the sequence of OS-level input calls issued.                      *)
mouse_click(available, x, y, move_os, click_os) ==
    IF ~available THEN [ret |-> FALSE, os |-> <<>>]
    ELSE IF ~validate_coordinates(x, y) THEN [ret |-> FALSE, os |-> <<>>]
    ELSE IF ~move_os THEN [ret |-> FALSE, os |-> <<"os_moveTo">>]
    ELSE [ret |-> click_os, os |-> <<"os_moveTo", "os_click">>]

(* self.mouse.click(x, y, button=button) as _execute_click calls it.  The  *)
(* handler's default button is the string 'left'; click formats            *)
(* button.value inside its try block, so a string button ends the call in  *)
(* its except clause before any coordinate is looked at.                   *)
mouse_click_from_action(available, x, y, button_is_enum, move_os, click_os) ==
    IF ~available THEN [ret |-> FALSE, os |-> <<>>]
    ELSE IF ~button_is_enum THEN [ret |-> FALSE, os |-> <<>>]
    ELSE mouse_click(available, x, y, move_os, click_os)

(* drag_and_drop(start_x, start_y, end_x, end_y) with human_like_movement  *)
(* as configured.  move_os: the move to the start goes through; drag_os:   *)
(* the move to the end does.                                               *)
mouse_drag(available, start_x, start_y, end_x, end_y, move_os, drag_os) ==
    IF ~available THEN [ret |-> FALSE, os |-> <<>>]
    ELSE IF ~(validate_coordinates(start_x, start_y) /\ validate_coordinates(end_x, end_y))
      THEN [ret |-> FALSE, os |-> <<>>]
    ELSE IF ~move_os THEN [ret |-> FALSE, os |-> <<"os_moveTo">>]
    ELSE [ret |-> drag_os, os |-> <<"os_moveTo", "os_mouseDown", "os_moveTo", "os_mouseUp">>]

click_range_stop_wide(n) == n + 2
click_range_stop(n) == n + 1                  \* range(max_retries + 1)

InitMouseVars ==
    /\ mouse_available = TRUE
    /\ click_pc = "idle"
    /\ click_target = <<0, 0>>
    /\ click_max = 0
    /\ click_attempt = 0
    /\ click_results = <<>>
    /\ click_events = <<>>
    /\ click_ret = FALSE

(* click_with_retry(x, y, max_retries = n.n), or without max_retries when  *)
(* ~n.given: None takes the default from self.config, which __init__ only  *)
(* sets when MOUSE_AVAILABLE.                                              *)
ClickWithRetry_Begin(x, y, n) ==
    /\ click_pc = "idle"
    /\ click_target' = <<x, y>>
    /\ click_attempt' = 0
    /\ click_results' = <<>>
    /\ click_events' = <<>>
    /\ IF ~n.given /\ ~mouse_available
       THEN click_pc' = "raised" /\ click_max' = 0 /\ click_ret' = FALSE
       ELSE LET m == IF ~n.given THEN default_retry_count ELSE n.n IN
            /\ click_max' = m
            /\ IF 0 < click_range_stop(m)
               THEN click_pc' = "loop" /\ click_ret' = FALSE
               ELSE click_pc' = "returned" /\ click_ret' = FALSE
    /\ UNCHANGED <<mouse_available, retryVars, actionVars, detectorVars, ocrVars, readVars, backoffVars, sequenceVars, locateVars, analyzeVars>>

(* One iteration of the loop.                                              *)
ClickWithRetry_Attempt(move_os, click_os) ==
    /\ click_pc = "loop"
    /\ IF click_attempt > 0 /\ ~mouse_available
       THEN \* self.config['retry_delay'] raises AttributeError
            /\ click_pc' = "raised"
            /\ UNCHANGED <<click_attempt, click_results, click_events, click_ret>>
       ELSE LET c == mouse_click(mouse_available, click_target[1], click_target[2],
                                 move_os, click_os)
                ev == click_events
                        \o (IF click_attempt > 0 THEN <<"sleep">> ELSE <<>>)
                        \o <<"click">> \o c.os
            IN /\ click_events' = ev
               /\ click_results' = Append(click_results, c.ret)
               /\ IF c.ret
                  THEN click_pc' = "returned" /\ click_ret' = TRUE
                       /\ UNCHANGED click_attempt
                  ELSE IF click_attempt + 1 < click_range_stop(click_max)
                  THEN click_pc' = "loop" /\ click_attempt' = click_attempt + 1
                       /\ UNCHANGED click_ret
                  ELSE click_pc' = "returned" /\ click_ret' = FALSE
                       /\ UNCHANGED click_attempt
    /\ UNCHANGED <<mouse_available, click_target, click_max, retryVars, actionVars, detectorVars, ocrVars, readVars, backoffVars, sequenceVars, locateVars, analyzeVars>>

----------------------------------------------------------------------------
(* ElementDetector: overlap, deduplication, ranking                         *)
(* An element is its position (x, y, width, height) and its confidence in  *)
(* percent.                                                                *)

Element(x, y, w, h, c) ==
    [position |-> [x |-> x, y |-> y, width |-> w, height |-> h], confidence |-> c]

(* _calculate_overlap returns intersection / union; the quotient is kept   *)
(* as the pair (num, den), 0.0 as (0, 1).                                  *)
calculate_overlap(pos1, pos2) ==
    LET x1 == Max2(pos1.x, pos2.x)
        y1 == Max2(pos1.y, pos2.y)
        x2 == Min2(pos1.x + pos1.width, pos2.x + pos2.width)
        y2 == Min2(pos1.y + pos1.height, pos2.y + pos2.height)
        intersection == (x2 - x1) * (y2 - y1)
        area1 == pos1.width * pos1.height
        area2 == pos2.width * pos2.height
        union == area1 + area2 - intersection
    IN IF x2 <= x1 \/ y2 <= y1 THEN [num |-> 0, den |-> 1]
       ELSE IF union > 0 THEN [num |-> intersection, den |-> union]
       ELSE [num |-> 0, den |-> 1]

(* overlap > 0.7                                                           *)
is_duplicate_overlap(ov) == 10 * ov.num > 7 * ov.den

RemoveAt(seq, i) == SubSeq(seq, 1, i - 1) \o SubSeq(seq, i + 1, Len(seq))

(* list.remove(v): drops the first entry equal to v.                       *)
ListRemove(seq, v) == RemoveAt(seq, CHOOSE i \in 1..Len(seq) :
                                       seq[i] = v /\ \A j \in 1..(i - 1) : seq[j] # v)

(* dedup_step replacing the kept element also on equal confidence.         *)
dedup_step_replaces_on_tie(unique_elements, element) ==
    LET hits == {i \in 1..Len(unique_elements) :
                    is_duplicate_overlap(calculate_overlap(element.position,
                                                           unique_elements[i].position))}
    IN IF hits = {} THEN Append(unique_elements, element)
       ELSE LET existing == unique_elements[CHOOSE i \in hits : \A j \in hits : i <= j]
            IN IF element.confidence >= existing.confidence
               THEN Append(ListRemove(unique_elements, existing), element)
               ELSE unique_elements

(* The body of the outer loop for one element: the inner loop stops at the *)
(* first existing element that overlaps by more than 0.7.                  *)
dedup_step(unique_elements, element) ==
    LET hits == {i \in 1..Len(unique_elements) :
                    is_duplicate_overlap(calculate_overlap(element.position,
                                                           unique_elements[i].position))}
    IN IF hits = {} THEN Append(unique_elements, element)
       ELSE LET existing == unique_elements[CHOOSE i \in hits : \A j \in hits : i <= j]
            IN IF element.confidence > existing.confidence
               THEN Append(ListRemove(unique_elements, existing), element)
               ELSE unique_elements

RECURSIVE dedup_from(_, _, _)
dedup_from(elements, i, unique_elements) ==
    IF i > Len(elements) THEN unique_elements
    ELSE dedup_from(elements, i + 1, dedup_step(unique_elements, elements[i]))

deduplicate_elements(elements) ==
    IF Len(elements) = 0 THEN <<>> ELSE dedup_from(elements, 1, <<>>)

(* list.sort(key = confidence, reverse = True): stable, descending.        *)
RECURSIVE sort_by_confidence(_)
sort_by_confidence(seq) ==
    IF Len(seq) = 0 THEN <<>>
    ELSE LET best == CHOOSE i \in 1..Len(seq) :
                        /\ \A j \in 1..Len(seq) : seq[j].confidence <= seq[i].confidence
                        /\ \A j \in 1..(i - 1) : seq[j].confidence < seq[i].confidence
         IN <<seq[best]>> \o sort_by_confidence(RemoveAt(seq, best))

InitDetectorVars ==
    /\ dd_pc = "in"
    /\ dd_input = <<>>
    /\ dd_output = <<>>
    /\ dd_op = "none"

(* _deduplicate_elements(elements) on its own.                             *)
DeduplicateElements ==
    /\ dd_pc = "in"
    /\ dd_output' = deduplicate_elements(dd_input)
    /\ dd_op' = "deduplicate"
    /\ dd_pc' = "out"
    /\ UNCHANGED <<dd_input, retryVars, actionVars, mouseVars, ocrVars, readVars, backoffVars, sequenceVars, locateVars, analyzeVars>>

(* The tail of find_button / find_input_field / find_clickable_elements:   *)
(* deduplicate the collected candidates, then sort by confidence.          *)
FindElements ==
    /\ dd_pc = "in"
    /\ dd_output' = sort_by_confidence(deduplicate_elements(dd_input))
    /\ dd_op' = "find"
    /\ dd_pc' = "out"
    /\ UNCHANGED <<dd_input, retryVars, actionVars, mouseVars, ocrVars, readVars, backoffVars, sequenceVars, locateVars, analyzeVars>>

----------------------------------------------------------------------------
(* MultiOCRManager: engine cascade and statistics                           *)
(* Confidences are kept in hundredths, execution times in whole seconds,   *)
(* quotients as pairs (num, den) with den > 0.                             *)

fallback_order == <<"paddleocr", "easyocr", "tesseract", "builtin">>
OptionalEngines == {"paddleocr", "easyocr", "tesseract"}

Frac(n, d) == [num |-> n, den |-> d]
FracLess(a, b) == a.num * b.den < b.num * a.den
FracEq(a, b) == a.num * b.den = b.num * a.den

NewEngineStats == [success |-> 0, total |-> 0, avg_time |-> Frac(0, 1)]

(* _initialize_engines: the optional engines that import and start, and    *)
(* the builtin engine, which is always created.  engine_stats gets its     *)
(* keys in this order.                                                     *)
initialize_engines(installed) ==
    {fallback_order[i] : i \in {j \in 1..Len(fallback_order) :
                                    fallback_order[j] \in installed \cup {"builtin"}}}

initial_engine_stats(installed) ==
    [e \in initialize_engines(installed) |-> NewEngineStats]

(* The seven characters of the builtin engine's first answer and the nine  *)
(* of its second; "Z" stands for a CJK character, which isalnum() accepts. *)
builtin_text_region == <<"Z", "Z", "Z", "Z", "Z", "Z", "Z">>
builtin_test_text == <<"Z", "Z", "O", "C", "R", "Z", "Z", "Z", "Z">>

IsSpace(c) == c \in {" ", "\t", "\n"}
IsAlnum(c) == c \in {"Z", "O", "C", "R", "N", "E", "T", "n", "e", "t", "0", "1"}

RECURSIVE lstrip(_)
lstrip(s) == IF Len(s) > 0 /\ IsSpace(s[1]) THEN lstrip(Tail(s)) ELSE s

RECURSIVE rstrip(_)
rstrip(s) ==
    IF Len(s) > 0 /\ IsSpace(s[Len(s)]) THEN rstrip(SubSeq(s, 1, Len(s) - 1)) ELSE s

strip(s) == rstrip(lstrip(s))

(* _estimate_confidence, in hundredths.                                    *)
base_confidence(engine_name) ==
    CASE engine_name = "paddleocr" -> 85
      [] engine_name = "easyocr"   -> 80
      [] engine_name = "tesseract" -> 75
      [] engine_name = "builtin"   -> 60
      [] OTHER                     -> 50

estimate_confidence(text, engine_name) ==
    IF Len(text) = 0 \/ Len(strip(text)) = 0 THEN 0
    ELSE LET text_length == Len(strip(text))
             c1 == base_confidence(engine_name)
                   + (IF text_length > 10 THEN 5
                      ELSE IF text_length < 3 THEN -10 ELSE 0)
             c2 == c1 + (IF \E i \in 1..Len(text) : IsAlnum(text[i]) THEN 5 ELSE 0)
         IN Min2(c2, 100)

(* stats['avg_time'] after one more attempt; total is the new count.  The  *)
(* old average has denominator total - 1, so the division is exact.        *)
update_avg_time(avg_time, total, execution_time) ==
    IF total = 1 THEN Frac(execution_time, 1)
    ELSE Frac((avg_time.num * (total - 1)) \div avg_time.den + execution_time, total)

update_engine_stats_uncounted(stats, engine_name, success, execution_time) ==
    stats

update_engine_stats(stats, engine_name, success, execution_time) ==
    IF engine_name \in DOMAIN stats
    THEN LET s == stats[engine_name]
             total == s.total + 1
         IN [stats EXCEPT ![engine_name] =
                [success  |-> IF success THEN s.success + 1 ELSE s.success,
                 total    |-> total,
                 avg_time |-> update_avg_time(s.avg_time, total, execution_time)]]
    ELSE stats

(* success_rate * 0.7 + speed_score * 0.3 for an engine with total > 0.    *)
engine_score(s) ==
    Frac(70 * s.success * s.avg_time.den
            + 3 * Max2(0, 10 * s.avg_time.den - s.avg_time.num) * s.total,
         100 * s.total * s.avg_time.den)

(* engine_stats.items() in insertion order                                 *)
stats_items(stats) == SelectSeq(fallback_order, LAMBDA e : e \in DOMAIN stats)

RECURSIVE best_engine_from(_, _, _, _, _)
best_engine_from(engs, stats, i, best_engine, best_score) ==
    IF i > Len(stats_items(stats)) THEN best_engine
    ELSE LET engine_name == stats_items(stats)[i]
             s == stats[engine_name]
         IN IF engine_name \notin engs \/ s.total = 0
            THEN best_engine_from(engs, stats, i + 1, best_engine, best_score)
            ELSE IF FracLess(best_score, engine_score(s))
                 THEN best_engine_from(engs, stats, i + 1, engine_name, engine_score(s))
                 ELSE best_engine_from(engs, stats, i + 1, best_engine, best_score)

get_best_engine(engs, stats) ==
    LET best_engine == best_engine_from(engs, stats, 1, "None", Frac(-1, 1))
    IN IF best_engine # "None" THEN best_engine
       ELSE IF engs # {} THEN fallback_order[1] ELSE "None"

(* engines_to_try keeping the preferred engine in the fallback part.      *)
engines_to_try_repeating(engs, prefer_engine, preferred_engines) ==
    LET prefer == IF Len(preferred_engines) > 0 /\ prefer_engine = "None"
                  THEN preferred_engines[1] ELSE prefer_engine
    IN IF prefer # "None" /\ prefer \in engs
       THEN <<prefer>> \o fallback_order
       ELSE fallback_order

(* prefer_engine / preferred_engines to the order the loop walks.          *)
engines_to_try(engs, prefer_engine, preferred_engines) ==
    LET prefer == IF Len(preferred_engines) > 0 /\ prefer_engine = "None"
                  THEN preferred_engines[1] ELSE prefer_engine
    IN IF prefer # "None" /\ prefer \in engs
       THEN <<prefer>> \o SelectSeq(fallback_order, LAMBDA e : e # prefer)
       ELSE fallback_order

EngineRaise == [kind |-> "raise", text |-> <<>>]
EngineText(t) == [kind |-> "text", text |-> t]

ExtractResult(text, confidence, engine_used, execution_time, success) ==
    [text |-> text, confidence |-> confidence, engine_used |-> engine_used,
     execution_time |-> execution_time, success |-> success]

all_engines_failed == ExtractResult(<<>>, 0, "None", 0, FALSE)

(* ocr_ret while no call has returned                                      *)
no_result == ExtractResult(<<>>, 0, "unset", 0, FALSE)

ocr_state ==
    [engine_stats |-> engine_stats, ocr_pc |-> ocr_pc, ocr_pos |-> ocr_pos,
     ocr_invoked |-> ocr_invoked, ocr_ret |-> ocr_ret]

(* The end of one pass of the for loop that did not return: the next       *)
(* engine, or the statements after the loop.                               *)
ocr_continue(st) ==
    IF st.ocr_pos < Len(ocr_order)
    THEN [st EXCEPT !.ocr_pos = st.ocr_pos + 1]
    ELSE [st EXCEPT !.ocr_pc = "done", !.ocr_ret = all_engines_failed]

(* try_engine without the test of the stripped text.                      *)
try_engine_accepts_blank(st, engine_name, out, execution_time) ==
    IF out.kind = "raise"
    THEN LET stats == update_engine_stats(st.engine_stats, engine_name, FALSE,
                                          execution_time)
         IN ocr_continue(
              [st EXCEPT !.engine_stats = stats,
                         !.ocr_invoked = Append(@, [engine |-> engine_name, out |-> out,
                                                    before |-> st.engine_stats,
                                                    after |-> stats])])
    ELSE LET stats == update_engine_stats(st.engine_stats, engine_name, TRUE,
                                          execution_time)
             st1 == [st EXCEPT !.engine_stats = stats,
                               !.ocr_invoked = Append(@, [engine |-> engine_name,
                                                          out |-> out,
                                                          before |-> st.engine_stats,
                                                          after |-> stats])]
         IN IF Len(out.text) > 0
            THEN [st1 EXCEPT !.ocr_pc = "done",
                             !.ocr_ret = ExtractResult(strip(out.text),
                                            estimate_confidence(out.text, engine_name),
                                            engine_name, execution_time, TRUE)]
            ELSE ocr_continue(st1)

(* One pass of the loop for an engine that is loaded: the engine answers   *)
(* out after execution_time seconds.                                       *)
try_engine(st, engine_name, out, execution_time) ==
    IF out.kind = "raise"
    THEN LET stats == update_engine_stats(st.engine_stats, engine_name, FALSE,
                                          execution_time)
         IN ocr_continue(
              [st EXCEPT !.engine_stats = stats,
                         !.ocr_invoked = Append(@, [engine |-> engine_name, out |-> out,
                                                    before |-> st.engine_stats,
                                                    after |-> stats])])
    ELSE LET stats == update_engine_stats(st.engine_stats, engine_name, TRUE,
                                          execution_time)
             st1 == [st EXCEPT !.engine_stats = stats,
                               !.ocr_invoked = Append(@, [engine |-> engine_name,
                                                          out |-> out,
                                                          before |-> st.engine_stats,
                                                          after |-> stats])]
         IN IF Len(out.text) > 0 /\ Len(strip(out.text)) > 0
            THEN [st1 EXCEPT !.ocr_pc = "done",
                             !.ocr_ret = ExtractResult(strip(out.text),
                                            estimate_confidence(out.text, engine_name),
                                            engine_name, execution_time, TRUE)]
            ELSE ocr_continue(st1)

SetOcrState(st) ==
    /\ engine_stats' = st.engine_stats
    /\ ocr_pc' = st.ocr_pc
    /\ ocr_pos' = st.ocr_pos
    /\ ocr_invoked' = st.ocr_invoked
    /\ ocr_ret' = st.ocr_ret

InitOcrVars(installed) ==
    /\ engines = initialize_engines(installed)
    /\ engine_stats = initial_engine_stats(installed)
    /\ ocr_pc = "idle"
    /\ ocr_order = <<>>
    /\ ocr_pos = 0
    /\ ocr_invoked = <<>>
    /\ ocr_ret = no_result
    /\ ocr_calls = 0
    /\ ocr_best = "unset"
    /\ ocr_prefer = [prefer_engine |-> "None", preferred_engines |-> <<>>]

----------------------------------------------------------------------------
(* OCREngine: read_screen_text and find_text_location                       *)
(* pytesseract's conf column is kept in tenths (955 is 95.5, -10 is -1).   *)

confidence_threshold == 30

(* int(v): truncation toward zero                                          *)
int_of_tenths(v) == IF v >= 0 THEN v \div 10 ELSE -((-v) \div 10)

(* One row of the table image_to_data returns.                             *)
OcrBox(text, conf) ==
    [text |-> text, conf |-> conf, left |-> 4, top |-> 6, width |-> 9, height |-> 5,
     level |-> 5]

(* The entry read_screen_text appends for a row it keeps.  The confidence  *)
(* is the row's int(conf) as it stands; as every confidence of the model   *)
(* it is written in hundredths.                                            *)
text_result(box) ==
    [text |-> strip(box.text),
     position |-> [x |-> box.left, y |-> box.top,
                   width |-> box.width, height |-> box.height,
                   center_x |-> box.left + box.width \div 2,
                   center_y |-> box.top + box.height \div 2],
     confidence |-> 100 * int_of_tenths(box.conf),
     level |-> box.level]

RECURSIVE read_boxes(_, _, _)
read_boxes(ocr_data, i, text_results) ==
    IF i > Len(ocr_data) THEN text_results
    ELSE IF int_of_tenths(ocr_data[i].conf) < confidence_threshold
         THEN read_boxes(ocr_data, i + 1, text_results)
         ELSE IF Len(strip(ocr_data[i].text)) = 0
              THEN read_boxes(ocr_data, i + 1, text_results)
              ELSE read_boxes(ocr_data, i + 1, Append(text_results, text_result(ocr_data[i])))

read_screen_text(available, ocr_data) ==
    IF ~available THEN <<>> ELSE read_boxes(ocr_data, 1, <<>>)

IsWordChar(c) == IsAlnum(c) \/ c = "_"

(* re.sub(r'[^\w]', '', text.lower())                                      *)
clean_text(text) == SelectSeq(lower(text), IsWordChar)

fuzzy_match(text1, text2) ==
    LET clean1 == clean_text(text1)
        clean2 == clean_text(text2)
    IN IF Len(clean1) >= 2 /\ Len(clean2) >= 2
       THEN Contains(clean2, clean1) \/ Contains(clean1, clean2)
       ELSE FALSE

RECURSIVE edit_distance(_, _)
edit_distance(text1, text2) ==
    IF Len(text1) = 0 THEN Len(text2)
    ELSE IF Len(text2) = 0 THEN Len(text1)
    ELSE LET front1 == SubSeq(text1, 1, Len(text1) - 1)
             front2 == SubSeq(text2, 1, Len(text2) - 1)
         IN IF text1[Len(text1)] = text2[Len(text2)]
            THEN edit_distance(front1, front2)
            ELSE Min2(Min2(edit_distance(front1, text2), edit_distance(text1, front2)),
                      edit_distance(front1, front2)) + 1

calculate_similarity(text1, text2) ==
    IF Len(text1) = 0 \/ Len(text2) = 0 THEN Frac(0, 1)
    ELSE LET max_len == Max2(Len(text1), Len(text2))
         IN Frac(Max2(0, max_len - edit_distance(text1, text2)), max_len)

WithMatch(text_info, match_type, match_score) ==
    [text |-> text_info.text, position |-> text_info.position,
     confidence |-> text_info.confidence, level |-> text_info.level,
     match_type |-> match_type, match_score |-> match_score]

match_step(matches, text_info, target_text, fuzzy) ==
    LET text == text_info.text
    IN IF target_text = text
       THEN Append(matches, WithMatch(text_info, "exact", Frac(1, 1)))
       ELSE IF Contains(lower(text), lower(target_text))
       THEN Append(matches, WithMatch(text_info, "contains",
                                      Frac(Len(target_text), Len(text))))
       ELSE IF fuzzy /\ fuzzy_match(target_text, text)
       THEN LET match_score == calculate_similarity(target_text, text)
            IN IF FracLess(Frac(6, 10), match_score)
               THEN Append(matches, WithMatch(text_info, "fuzzy", match_score))
               ELSE matches
       ELSE matches

RECURSIVE matches_from(_, _, _, _, _)
matches_from(all_texts, i, matches, target_text, fuzzy) ==
    IF i > Len(all_texts) THEN matches
    ELSE matches_from(all_texts, i + 1,
                      match_step(matches, all_texts[i], target_text, fuzzy),
                      target_text, fuzzy)

(* matches.sort(key = match_score, reverse = True): stable, descending.    *)
RECURSIVE sort_by_match_score(_)
sort_by_match_score(seq) ==
    IF Len(seq) = 0 THEN <<>>
    ELSE LET best == CHOOSE i \in 1..Len(seq) :
                        /\ \A j \in 1..Len(seq) :
                              ~FracLess(seq[i].match_score, seq[j].match_score)
                        /\ \A j \in 1..(i - 1) :
                              FracLess(seq[j].match_score, seq[i].match_score)
         IN <<seq[best]>> \o sort_by_match_score(RemoveAt(seq, best))

find_text_location(available, ocr_data, target_text, fuzzy) ==
    IF ~available THEN <<>>
    ELSE LET all_texts == read_screen_text(available, ocr_data)
         IN IF Len(all_texts) = 0 THEN <<>>
            ELSE sort_by_match_score(matches_from(all_texts, 1, <<>>, target_text, fuzzy))

InitReadVars ==
    /\ OCR_AVAILABLE = TRUE
    /\ rs_pc = "in"
    /\ rs_data = <<>>
    /\ rs_results = <<>>
    /\ rs_op = "none"

(* read_screen_text(image) on the table the recognizer gives for image.    *)
ReadScreenText ==
    /\ rs_pc = "in"
    /\ rs_results' = read_screen_text(OCR_AVAILABLE, rs_data)
    /\ rs_op' = "read_screen_text"
    /\ rs_pc' = "out"
    /\ UNCHANGED <<OCR_AVAILABLE, rs_data,
                   retryVars, actionVars, mouseVars, detectorVars, ocrVars, backoffVars, sequenceVars, locateVars, analyzeVars>>

(* find_text_location(image, target_text, fuzzy_match)                     *)
FindTextLocation(target_text, fuzzy) ==
    /\ rs_pc = "in"
    /\ rs_results' = find_text_location(OCR_AVAILABLE, rs_data, target_text, fuzzy)
    /\ rs_op' = "find_text_location"
    /\ rs_pc' = "out"
    /\ UNCHANGED <<OCR_AVAILABLE, rs_data,
                   retryVars, actionVars, mouseVars, detectorVars, ocrVars, backoffVars, sequenceVars, locateVars, analyzeVars>>

----------------------------------------------------------------------------
(* The waits of one run whose attempts all fail with the same type          *)

InitBackoffVars ==
    /\ bo_type = UNKNOWN
    /\ bo_attempt = 0
    /\ bo_prev = -1
    /\ bo_wait = -1

InitSequenceVars ==
    /\ stop_on_failure = FALSE
    /\ seq_pc = "idle"
    /\ seq_actions = <<>>
    /\ seq_index = 0
    /\ seq_results = <<>>
    /\ seq_executed = <<>>

InitLocateVars ==
    /\ loc_pc = "in"
    /\ loc_elements = <<>>
    /\ loc_ret = NoneVal

InitAnalyzeVars ==
    /\ af_pc = "in"
    /\ af_result = NoneVal
    /\ af_type = UNKNOWN

----------------------------------------------------------------------------
(* Bounds and input sets of the retry specification                         *)

MaxRuns == 1

msg_Timeout == <<"T","i","m","e","o","u","t">>
msg_busy    == <<"b","u","s","y">>

(* Behaviours of a caller-supplied operation.                              *)
RetryOutcomes ==
    { OpResult(TRUE, <<>>, NoType),
      OpResult(FALSE, msg_Timeout, NoType),
      OpResult(FALSE, msg_busy, ELEMENT_NOT_FOUND),
      OpValue(TRUE, "object"),
      OpValue(FALSE, "None"),
      OpRaise(msg_busy),
      OpRaise(msg_Timeout) }

Jitters == {80, 120}
Offsets == {<<0, 0>>, <<-5, 5>>}
OperationTypes == {"find_element"}
ArgsKinds == {"ok", "missing", "extra"}
ControllerOutcomes == {"true", "false", "raise"}
RetryActionTypes == {CLICK, WINDOW_OPEN, "bogus"}

InitRetryVars ==
    /\ max_retries = default_max_retries
    /\ failure_stats = NoParameters
    /\ retry_pc = "idle"
    /\ context = RetryContext("", NoParameters)
    /\ attempt = 0
    /\ last_result = NoneVal
    /\ retry_ret = NoneVal
    /\ events = <<>>
    /\ op_outcomes = <<>>
    /\ wait_time = 0
    /\ runs = 0
    /\ op_source = "callable"
    /\ action_args = "ok"

InitActionVars ==
    /\ action_history = <<>>
    /\ clock = 0
    /\ action_result = NoneVal
    /\ action_calls = 0

(* retry_manager.execute_with_retry(operation, context) is called.         *)
ExecuteWithRetry_Begin(operation_type) ==
    /\ retry_pc \in {"idle", "returned"}
    /\ runs < MaxRuns
    /\ runs' = runs + 1
    /\ op_source' = "callable"
    /\ action_args' = "ok"
    /\ SetRunState(NewRun(operation_type, NoParameters))
    /\ UNCHANGED <<max_retries, actionVars, mouseVars, detectorVars, ocrVars, readVars, backoffVars, sequenceVars, locateVars, analyzeVars>>

ExecuteWithRetry_Attempt(o, jitter, off) ==
    /\ retry_pc = "loop"
    /\ op_source = "callable"
    /\ SetRunState(loop_body(run_state, o, jitter, off))
    /\ UNCHANGED <<max_retries, runs, op_source, action_args, actionVars, mouseVars, detectorVars, ocrVars, readVars, backoffVars, sequenceVars, locateVars, analyzeVars>>

(* ActionSystem.execute_with_intelligent_retry(action_type, kwargs) with   *)
(* config['enable_intelligent_retry'] as constructed (True).               *)
ExecuteWithIntelligentRetry_Begin(action_type, args) ==
    /\ retry_pc \in {"idle", "returned"}
    /\ runs < MaxRuns
    /\ runs' = runs + 1
    /\ op_source' = "action_system"
    /\ action_args' = args
    /\ SetRunState(NewRun(action_type, NoParameters))
    /\ UNCHANGED <<max_retries, actionVars, mouseVars, detectorVars, ocrVars, readVars, backoffVars, sequenceVars, locateVars, analyzeVars>>

(* One iteration whose operation is operation_func: it calls               *)
(* execute_action(ctx.operation_type, ctx.parameters) and returns the      *)
(* ActionResult (execute_action does not raise, so the except branch of    *)
(* operation_func is not taken).  Keys added by a retry strategy are       *)
(* additional keyword arguments of the next call.                          *)
ExecuteWithIntelligentRetry_Attempt(ctl, jitter, off) ==
    /\ retry_pc = "loop"
    /\ op_source = "action_system"
    /\ LET args == IF DOMAIN context.parameters # {} /\ action_args = "ok"
                   THEN "extra" ELSE action_args
           r == execute_action(action_history, context.operation_type, args, ctl, clock + 1)
       IN /\ SetRunState(loop_body(run_state, ActionResultValue(r.success), jitter, off))
          /\ action_history' = r.history
          /\ clock' = clock + 1
          /\ action_result' = ActionOutcome(r)
          /\ action_calls' = action_calls + 1
    /\ UNCHANGED <<max_retries, runs, op_source, action_args, mouseVars, detectorVars, ocrVars, readVars, backoffVars, sequenceVars, locateVars, analyzeVars>>

vars == <<retryVars, actionVars, mouseVars, detectorVars, ocrVars, readVars, backoffVars, sequenceVars, locateVars, analyzeVars>>

InitRetry == InitRetryVars /\ InitActionVars /\ InitMouseVars /\ InitDetectorVars
             /\ InitOcrVars({}) /\ InitReadVars
             /\ InitBackoffVars /\ InitSequenceVars /\ InitLocateVars
             /\ InitAnalyzeVars

NextRetry ==
    \/ \E t \in OperationTypes : ExecuteWithRetry_Begin(t)
    \/ \E o \in RetryOutcomes, j \in Jitters, off \in Offsets :
          ExecuteWithRetry_Attempt(o, j, off)
    \/ \E t \in RetryActionTypes, a \in ArgsKinds :
          ExecuteWithIntelligentRetry_Begin(t, a)
    \/ \E c \in ControllerOutcomes, j \in Jitters, off \in Offsets :
          ExecuteWithIntelligentRetry_Attempt(c, j, off)

SpecRetry == InitRetry /\ [][NextRetry]_vars


----------------------------------------------------------------------------
(* Claims about the retry coordinator                                       *)

NumInvocations == Len(op_outcomes)

(* The events of the run after the n-th invocation of the operation.       *)
EventsAfterInvocation(n) ==
    LET k == CHOOSE i \in 1..Len(events) :
                 /\ events[i] = "invoke"
                 /\ Cardinality({j \in 1..i : events[j] = "invoke"}) = n
    IN {events[i] : i \in (k + 1)..Len(events)}

ReturnsSuccess(o) ==
    IF o.kind = "result" THEN o.success
    ELSE o.kind = "value" /\ o.truthy /\ (o.data = "ActionResult" => o.success)

(* C1: whatever the operation does at each invocation, execute_with_retry  *)
(* invokes it at most max_retries + 1 times and then returns, either a     *)
(* success result or, with all max_retries + 1 attempts used, a failure    *)
(* result.  Termination is stated by its variant: a running loop has made  *)
(* `attempt` invocations, attempt <= max_retries, and every iteration      *)
(* either returns or moves to attempt + 1.                                 *)
C1_BoundedAttemptsAndTermination ==
    /\ [](NumInvocations <= max_retries + 1)
    /\ [](retry_pc = "loop" => attempt = NumInvocations /\ attempt <= max_retries)
    /\ [](retry_pc = "returned" =>
             \/ retry_ret.success
             \/ ~retry_ret.success /\ NumInvocations = max_retries + 1)
    /\ [][retry_pc = "loop" =>
             \/ retry_pc' = "returned"
             \/ retry_pc' = "loop" /\ attempt' = attempt + 1]_vars

C1_Witness ==
    /\ retry_pc = "returned"
    /\ op_source = "callable"
    /\ ~retry_ret.success
    /\ NumInvocations = max_retries + 1
    /\ \E i \in 1..NumInvocations : op_outcomes[i].kind = "raise"
    /\ \E i \in 1..NumInvocations : op_outcomes[i] = OpValue(FALSE, "None")
    /\ \E i \in 1..NumInvocations : op_outcomes[i].kind = "result"

(* C2: execute_with_intelligent_retry returns success only if the          *)
(* execute_action of some attempt returned success = true.                 *)
C2_SuccessOnlyIfActionSucceeded ==
    (op_source = "action_system" /\ retry_pc = "returned" /\ retry_ret.success)
        => \E i \in 1..NumInvocations : op_outcomes[i].success

(* C3: once an invocation returns success it is the last invocation of the *)
(* run, the run has returned that result, and no classification, strategy  *)
(* or wait follows it.                                                     *)
C3_StopsAtFirstSuccess ==
    \A i \in 1..NumInvocations :
        ReturnsSuccess(op_outcomes[i]) =>
            /\ i = NumInvocations
            /\ retry_pc = "returned"
            /\ retry_ret.success
            /\ retry_ret.data = op_outcomes[i].data
            /\ op_outcomes[i].kind = "result" =>
                   retry_ret = OperationResult(TRUE, op_outcomes[i].message,
                                               op_outcomes[i].data,
                                               op_outcomes[i].failure_type)
            /\ EventsAfterInvocation(i) \cap {"invoke", "classify", "strategy", "sleep"} = {}

C3_Witness ==
    /\ retry_pc = "returned"
    /\ NumInvocations >= 3
    /\ op_outcomes[NumInvocations].kind = "result"
    /\ op_outcomes[NumInvocations].success
    /\ "sleep" \in {events[i] : i \in 1..Len(events)}

(* The type the coordinator gave the attempt just made, when it gave one:  *)
(* the tag of the result built in the except branch, or the entry appended *)
(* to failure_history.                                                     *)
LastOutcome == op_outcomes[NumInvocations]

(* C12: a failed attempt whose error message contains "timeout", returned  *)
(* in a failed result or raised as an exception, is given the type         *)
(* TIMEOUT.                                                                *)
C12_TimeoutMessageIsTimeout ==
    (NumInvocations > 0 /\ op_source = "callable"
       /\ Contains(lower(LastOutcome.message), kw_timeout)) =>
        /\ LastOutcome.kind = "raise" => last_result.failure_type = TIMEOUT
        /\ (LastOutcome.kind = "result" /\ ~LastOutcome.success /\ retry_pc = "loop") =>
               context.failure_history[Len(context.failure_history)] = TIMEOUT

(* C16: a run that ends with its attempts used up returns a failed result  *)
(* whose failure_type is the classification of the last failed attempt.    *)
C16_ExhaustedResultIsClassified ==
    (retry_pc = "returned" /\ ~retry_ret.success /\ NumInvocations = max_retries + 1) =>
        /\ retry_ret.failure_type # NoType
        /\ retry_ret.failure_type = analyze_failure(last_result)

(* C20: every attempt that did not succeed has appended one entry to       *)
(* context.failure_history; after an exhausted run the history is as long  *)
(* as the number of attempts.                                              *)
C20_FailureHistoryPerFailedAttempt ==
    retry_pc \in {"loop", "returned"} =>
        Len(context.failure_history)
            = Cardinality({i \in 1..NumInvocations : ~ReturnsSuccess(op_outcomes[i])})

(* The position in events of the n-th invocation of the operation.         *)
InvokeIndex(n) ==
    CHOOSE i \in 1..Len(events) :
        /\ events[i] = "invoke"
        /\ Cardinality({j \in 1..i : events[j] = "invoke"}) = n

(* What the loop did after the n-th invocation and before the next one.    *)
EventSegment(n) ==
    SubSeq(events, InvokeIndex(n) + 1,
           IF n < NumInvocations THEN InvokeIndex(n + 1) - 1 ELSE Len(events))

(* C21: every failed attempt that is not the last one, whether it returned *)
(* a failed result or raised, is followed before the next invocation by    *)
(* classification, strategy and backoff wait, in this order; after the     *)
(* final attempt there is neither strategy nor wait.                       *)
C21_ClassifyStrategyBackoffBetweenAttempts ==
    \A n \in 1..NumInvocations :
        LET seg == EventSegment(n)
        IN IF n < NumInvocations \/ retry_pc = "loop"
           THEN SelectSeq(seg, LAMBDA e : e # "except")
                    = <<"classify", "strategy", "sleep">>
           ELSE \A i \in 1..Len(seg) : seg[i] \notin {"strategy", "sleep"}

(* C26: the ELEMENT_NOT_FOUND strategy applied at attempt index a sets the  *)
(* parameter detection_method to the entry a modulo 4 of the list          *)
(* ocr_text, image_match, coordinate_estimate, fuzzy_match.                *)
C26_DetectionMethodRotates ==
    (/\ retry_pc = "loop"
     /\ attempt > 0
     /\ Len(events) >= 2
     /\ events[Len(events) - 1] = "strategy"
     /\ context.failure_history[Len(context.failure_history)] = ELEMENT_NOT_FOUND) =>
        /\ Has(context.parameters, "detection_method")
        /\ context.parameters["detection_method"]
              = detection_methods[((attempt - 1) % Len(detection_methods)) + 1]

(* C23: every run that has returned has raised total_attempts of its       *)
(* operation type by one and, with it, successful_attempts when it ended   *)
(* in success or failed_attempts when it ended exhausted: the totals over  *)
(* all types add up to the number of runs, and for every type              *)
(* total_attempts = successful_attempts + failed_attempts.                 *)
C23_EveryRunCounted ==
    retry_pc = "returned" =>
        /\ total_operations(failure_stats) = runs
        /\ \A t \in DOMAIN failure_stats :
              failure_stats[t].total_attempts
                = failure_stats[t].successful_attempts + failure_stats[t].failed_attempts
        /\ context.operation_type \in DOMAIN failure_stats
        /\ LET st == failure_stats[context.operation_type]
           IN IF retry_ret.success THEN st.successful_attempts >= 1
              ELSE st.failed_attempts >= 1


----------------------------------------------------------------------------
(* ActionSystem.execute_action and its bounded history                      *)

MaxCalls == 2

HistoryActionTypes == {WAIT, "bogus"}
HistoryArgsKinds == {"ok", "missing"}

(* The history after n successful wait actions of a fresh ActionSystem.    *)
HistoryAfter(n) ==
    [i \in 1..n |-> [action_type |-> WAIT, params |-> "ok",
                     success |-> TRUE, timestamp |-> i]]

ExecuteAction(action_type, args, ctl) ==
    /\ action_calls < MaxCalls
    /\ LET r == execute_action(action_history, action_type, args, ctl, clock + 1)
       IN /\ action_history' = r.history
          /\ action_result' = ActionOutcome(r)
    /\ clock' = clock + 1
    /\ action_calls' = action_calls + 1
    /\ UNCHANGED <<retryVars, mouseVars, detectorVars, ocrVars, readVars, backoffVars, sequenceVars, locateVars, analyzeVars>>

InitHistory ==
    /\ InitRetryVars
    /\ \E n \in 0..max_history :
          /\ action_history = HistoryAfter(n)
          /\ clock = n
    /\ action_result = NoneVal
    /\ action_calls = 0
    /\ InitMouseVars
    /\ InitDetectorVars
    /\ InitOcrVars({})
    /\ InitReadVars
    /\ InitBackoffVars
    /\ InitSequenceVars
    /\ InitLocateVars
    /\ InitAnalyzeVars

NextHistory ==
    \E t \in HistoryActionTypes, a \in HistoryArgsKinds :
        ExecuteAction(t, a, "true")

SpecHistory == InitHistory /\ [][NextHistory]_vars

(* C10: the history never holds more than 1000 records, and the call that  *)
(* appends to a history of 1000 records leaves at most 500, the newest     *)
(* being the record of that call.                                          *)
C10_HistoryBounded ==
    /\ [](Len(action_history) <= max_history)
    /\ [][(Len(action_history) = max_history /\ action_history' # action_history)
            => /\ Len(action_history') <= keep_history
               /\ action_history'[Len(action_history')].timestamp = clock']_vars

C10_Witness ==
    /\ Len(action_history) = keep_history
    /\ action_history[keep_history].timestamp = max_history + 1
    /\ action_history[1].timestamp = max_history + 1 - keep_history + 1


----------------------------------------------------------------------------
(* MouseController.click_with_retry                                         *)

MaxClickRetries == 3
ClickRetryArgs == {[given |-> FALSE, n |-> 0]}
                    \cup {[given |-> TRUE, n |-> k] : k \in (-1)..MaxClickRetries}
ClickXs == {-1, 1, ScreenWidth}
ClickYs == {1, ScreenHeight}

InitClick ==
    /\ InitRetryVars
    /\ InitActionVars
    /\ mouse_available \in BOOLEAN
    /\ click_pc = "idle"
    /\ click_target = <<0, 0>>
    /\ click_max = 0
    /\ click_attempt = 0
    /\ click_results = <<>>
    /\ click_events = <<>>
    /\ click_ret = FALSE
    /\ InitDetectorVars
    /\ InitOcrVars({})
    /\ InitReadVars
    /\ InitBackoffVars
    /\ InitSequenceVars
    /\ InitLocateVars
    /\ InitAnalyzeVars

NextClick ==
    \/ \E x \in ClickXs, y \in ClickYs, n \in ClickRetryArgs : ClickWithRetry_Begin(x, y, n)
    \/ \E m \in BOOLEAN, c \in BOOLEAN : ClickWithRetry_Attempt(m, c)

SpecClick == InitClick /\ [][NextClick]_vars

NumClicks == Len(click_results)

(* The index in click_events of the k-th "click".                          *)
ClickEventIndex(k) ==
    CHOOSE i \in 1..Len(click_events) :
        /\ click_events[i] = "click"
        /\ Cardinality({j \in 1..i : click_events[j] = "click"}) = k

(* C4: click_with_retry(x, y, max_retries = n) calls click at most n + 1   *)
(* times; a click that succeeds is the last one, no sleep or click follows *)
(* it and True is returned; False is returned only after n + 1 failed      *)
(* clicks.                                                                 *)
C4_ClickWithRetry ==
    /\ NumClicks <= click_max + 1
    /\ \A k \in 1..NumClicks :
          click_results[k] =>
              /\ k = NumClicks
              /\ click_pc = "returned" /\ click_ret
              /\ \A i \in (ClickEventIndex(k) + 1)..Len(click_events) :
                     click_events[i] \notin {"click", "sleep"}
    /\ (click_pc = "returned" /\ ~click_ret) =>
          /\ NumClicks = click_max + 1
          /\ \A k \in 1..NumClicks : ~click_results[k]
    /\ (click_pc = "returned" /\ click_ret) => click_results[NumClicks]

C4_Witness ==
    /\ click_pc = "returned"
    /\ click_ret
    /\ click_max = default_retry_count
    /\ NumClicks = default_retry_count + 1


----------------------------------------------------------------------------
(* ElementDetector: deduplicated candidate lists                            *)

MaxElements == 3

(* Three boxes in a row, shifted by one pixel each, one far away, and the  *)
(* pair (10,10,50,20), (12,11,48,19).                                      *)
Boxes == { <<0, 0, 10, 10>>, <<1, 0, 10, 10>>, <<2, 0, 10, 10>>,
           <<40, 40, 10, 10>>, <<10, 10, 50, 20>>, <<12, 11, 48, 19>> }
Confidences == {50, 70, 90}
Elements == {Element(b[1], b[2], b[3], b[4], c) : b \in Boxes, c \in Confidences}

ElementLists == UNION {[1..n -> Elements] : n \in 0..MaxElements}

InitDedup ==
    /\ InitRetryVars
    /\ InitActionVars
    /\ InitMouseVars
    /\ dd_pc = "in"
    /\ dd_input \in ElementLists
    /\ dd_output = <<>>
    /\ dd_op = "none"
    /\ InitOcrVars({})
    /\ InitReadVars
    /\ InitBackoffVars
    /\ InitSequenceVars
    /\ InitLocateVars
    /\ InitAnalyzeVars

NextDedup == DeduplicateElements \/ FindElements

SpecDedup == InitDedup /\ [][NextDedup]_vars

Overlapping(e1, e2) == is_duplicate_overlap(calculate_overlap(e1.position, e2.position))

(* C5: the list returned by _deduplicate_elements (and by the find_*       *)
(* operations) holds no two elements whose boxes have IoU > 0.7.           *)
C5_NoOverlappingPairKept ==
    dd_pc = "out" =>
        \A i, j \in 1..Len(dd_output) :
            i < j => ~Overlapping(dd_output[i], dd_output[j])

(* C28: of two elements whose boxes have IoU > 0.7, given in either order, *)
(* _deduplicate_elements returns exactly one: the one of higher            *)
(* confidence, the first one given when the confidences are equal.         *)
C28_OverlappingPairCollapses ==
    (dd_pc = "out" /\ Len(dd_input) = 2 /\ Overlapping(dd_input[1], dd_input[2])) =>
        dd_output = << IF dd_input[2].confidence > dd_input[1].confidence
                       THEN dd_input[2] ELSE dd_input[1] >>

C28_Witness ==
    /\ dd_pc = "out"
    /\ dd_op = "deduplicate"
    /\ dd_input = <<Element(12, 11, 48, 19, 50), Element(10, 10, 50, 20, 90)>>
    /\ dd_output = <<Element(10, 10, 50, 20, 90)>>

(* C30: _deduplicate_elements applied to its own output returns that       *)
(* output unchanged.                                                       *)
C30_DeduplicateIdempotent ==
    (dd_pc = "out" /\ dd_op = "deduplicate") =>
        deduplicate_elements(dd_output) = dd_output

----------------------------------------------------------------------------
(* MultiOCRManager: calls of extract_text and get_best_engine               *)

MaxOcrCalls == 1

Latencies == {1, 12}
InstalledSets == SUBSET OptionalEngines
PreferEngines == {"None", "easyocr", "builtin", "unknown"}
PreferredLists == {<<>>, <<"tesseract", "easyocr">>}

long_text == <<"N", "E", "T", " ", "N", "E", "T", " ", "N", "E", "T">>

(* What _extract_with_engine can give: the builtin engine answers one of   *)
(* its two fixed strings, the others raise or return any text.             *)
EngineOutcomes(engine_name) ==
    IF engine_name = "builtin"
    THEN {EngineText(builtin_text_region), EngineText(builtin_test_text)}
    ELSE {EngineRaise, EngineText(<<>>), EngineText(<<" ">>), EngineText(<<"-">>),
          EngineText(long_text)}

(* extract_text up to the head of the loop.                                *)
ExtractText_Begin(prefer_engine, preferred_engines) ==
    /\ ocr_pc \in {"idle", "done"}
    /\ ocr_calls < MaxOcrCalls
    /\ ocr_calls' = ocr_calls + 1
    /\ ocr_order' = engines_to_try(engines, prefer_engine, preferred_engines)
    /\ ocr_pos' = 1
    /\ ocr_pc' = "trying"
    /\ ocr_invoked' = <<>>
    /\ ocr_ret' = no_result
    /\ ocr_best' = "unset"
    /\ ocr_prefer' = [prefer_engine |-> prefer_engine,
                      preferred_engines |-> preferred_engines]
    /\ UNCHANGED <<engines, engine_stats,
                   retryVars, actionVars, mouseVars, detectorVars, readVars, backoffVars, sequenceVars, locateVars, analyzeVars>>

(* A pass of the loop for a name that is not in self.engines.              *)
ExtractText_Skip ==
    /\ ocr_pc = "trying"
    /\ ocr_order[ocr_pos] \notin engines
    /\ SetOcrState(ocr_continue(ocr_state))
    /\ UNCHANGED <<engines, ocr_order, ocr_calls, ocr_best, ocr_prefer,
                   retryVars, actionVars, mouseVars, detectorVars, readVars, backoffVars, sequenceVars, locateVars, analyzeVars>>

(* A pass of the loop for a loaded engine.                                 *)
ExtractText_Try ==
    /\ ocr_pc = "trying"
    /\ ocr_order[ocr_pos] \in engines
    /\ \E out \in EngineOutcomes(ocr_order[ocr_pos]), execution_time \in Latencies :
          SetOcrState(try_engine(ocr_state, ocr_order[ocr_pos], out, execution_time))
    /\ UNCHANGED <<engines, ocr_order, ocr_calls, ocr_best, ocr_prefer,
                   retryVars, actionVars, mouseVars, detectorVars, readVars, backoffVars, sequenceVars, locateVars, analyzeVars>>

(* get_best_engine(), between two calls of extract_text.                   *)
GetBestEngine ==
    /\ ocr_pc \in {"idle", "done"}
    /\ ocr_best' = get_best_engine(engines, engine_stats)
    /\ UNCHANGED <<engines, engine_stats, ocr_pc, ocr_order, ocr_pos, ocr_invoked,
                   ocr_ret, ocr_calls, ocr_prefer,
                   retryVars, actionVars, mouseVars, detectorVars, readVars, backoffVars, sequenceVars, locateVars, analyzeVars>>

InitOCR ==
    /\ InitRetryVars
    /\ InitActionVars
    /\ InitMouseVars
    /\ InitDetectorVars
    /\ InitReadVars
    /\ InitBackoffVars
    /\ InitSequenceVars
    /\ InitLocateVars
    /\ InitAnalyzeVars
    /\ \E installed \in InstalledSets : InitOcrVars(installed)

NextOCR ==
    \/ \E prefer_engine \in PreferEngines, preferred_engines \in PreferredLists :
          ExtractText_Begin(prefer_engine, preferred_engines)
    \/ ExtractText_Skip
    \/ ExtractText_Try
    \/ GetBestEngine

SpecOCR == InitOCR /\ [][NextOCR]_vars

AttemptFailed(entry) == entry.out.kind = "raise" \/ Len(strip(entry.out.text)) = 0

(* C6: when an engine A fails on the frame (raises or returns empty text)  *)
(* and the next engine B returns non-empty text, extract_text returns      *)
(* engine_used = B with success, no engine after B is invoked, and A's     *)
(* attempt is already counted in A's statistics when B is invoked.         *)
C6_FallbackToNextEngine ==
    \A k \in 1..(Len(ocr_invoked) - 1) :
        (AttemptFailed(ocr_invoked[k]) /\ ~AttemptFailed(ocr_invoked[k + 1])) =>
            LET A == ocr_invoked[k].engine
                B == ocr_invoked[k + 1].engine
            IN /\ ocr_invoked[k + 1].before[A].total = ocr_invoked[k].before[A].total + 1
               /\ Len(ocr_invoked) = k + 1
               /\ ocr_pc = "done"
               /\ ocr_ret.engine_used = B
               /\ ocr_ret.success

C6_Witness ==
    /\ ocr_pc = "done"
    /\ Len(ocr_invoked) = 2
    /\ AttemptFailed(ocr_invoked[1])
    /\ ~AttemptFailed(ocr_invoked[2])
    /\ ocr_ret.engine_used = ocr_invoked[2].engine
    /\ \E j \in (ocr_pos + 1)..Len(ocr_order) : ocr_order[j] \in engines

(* C7: an attempt that raises or returns empty or whitespace-only text is  *)
(* recorded as a failure (the engine's total grows by one, its success     *)
(* count stays) and the cascade goes on.                                   *)
C7_FailedAttemptRecordedAsFailure ==
    \A k \in 1..Len(ocr_invoked) :
        AttemptFailed(ocr_invoked[k]) =>
            LET e == ocr_invoked[k].engine
            IN /\ ocr_invoked[k].after[e].total = ocr_invoked[k].before[e].total + 1
               /\ ocr_invoked[k].after[e].success = ocr_invoked[k].before[e].success
               /\ (k < Len(ocr_invoked) \/ ocr_pc = "trying" \/ ~ocr_ret.success)

DeclaredIndex(e) == CHOOSE i \in 1..Len(fallback_order) : fallback_order[i] = e

(* 0.7 * success_rate + 0.3 * max(0, 1 - avg_latency / 10); the success    *)
(* rate of an engine without attempts is 0.                                *)
StatedScore(s) ==
    LET rate == IF s.total = 0 THEN Frac(0, 1) ELSE Frac(s.success, s.total)
        speed == Frac(Max2(0, 10 * s.avg_time.den - s.avg_time.num), 10 * s.avg_time.den)
    IN Frac(7 * rate.num * speed.den + 3 * speed.num * rate.den,
            10 * rate.den * speed.den)

(* C8: get_best_engine returns an engine of maximal score among the        *)
(* engines, and of several with the maximal score the one declared first.  *)
C8_BestEngineMaximizesScore ==
    ocr_best # "unset" =>
        LET st == engine_stats
            r == ocr_best
        IN /\ r \in DOMAIN st
           /\ \A e \in DOMAIN st :
                 /\ ~FracLess(StatedScore(st[r]), StatedScore(st[e]))
                 /\ FracEq(StatedScore(st[r]), StatedScore(st[e])) =>
                        DeclaredIndex(r) <= DeclaredIndex(e)

(* The engine the call prefers: prefer_engine, else the head of            *)
(* preferred_engines.                                                      *)
SuppliedEngine ==
    IF ocr_prefer.prefer_engine # "None" THEN ocr_prefer.prefer_engine
    ELSE IF Len(ocr_prefer.preferred_engines) > 0 THEN ocr_prefer.preferred_engines[1]
    ELSE "None"

(* The stated order: the preferred engine first when it is available, then *)
(* the other available engines in the fallback order.                      *)
StatedOrder ==
    LET available == SelectSeq(fallback_order, LAMBDA e : e \in engines)
    IN IF SuppliedEngine \in engines
       THEN <<SuppliedEngine>> \o SelectSeq(available, LAMBDA e : e # SuppliedEngine)
       ELSE available

InvokedEngines == [k \in 1..Len(ocr_invoked) |-> ocr_invoked[k].engine]

(* C24: within one extract_text call the engines invoked so far are the    *)
(* first ones of the stated order, each once, unavailable ones skipped.    *)
C24_EnginesInvokedInStatedOrder ==
    ocr_pc \in {"trying", "done"} =>
        /\ Len(InvokedEngines) <= Len(StatedOrder)
        /\ InvokedEngines = SubSeq(StatedOrder, 1, Len(InvokedEngines))

C24_Witness ==
    /\ ocr_pc = "done"
    /\ ocr_prefer.prefer_engine = "None"
    /\ ocr_prefer.preferred_engines = <<"tesseract", "easyocr">>
    /\ engines = {"easyocr", "tesseract", "builtin"}
    /\ InvokedEngines = <<"tesseract", "easyocr", "builtin">>

(* C25: extract_text returns success = false, with empty text and no       *)
(* engine_used, exactly when every available engine raised or returned     *)
(* empty text; a result with success = true carries the non-empty text of  *)
(* the engine named in engine_used, the last one invoked.                  *)
C25_FailureIffAllEnginesFailed ==
    ocr_pc = "done" =>
        /\ ~ocr_ret.success <=>
              \A e \in engines :
                  \E k \in 1..Len(ocr_invoked) :
                      ocr_invoked[k].engine = e /\ AttemptFailed(ocr_invoked[k])
        /\ ~ocr_ret.success => (ocr_ret.text = <<>> /\ ocr_ret.engine_used = "None")
        /\ ocr_ret.success =>
              /\ Len(ocr_ret.text) > 0
              /\ Len(ocr_invoked) > 0
              /\ ocr_ret.engine_used = ocr_invoked[Len(ocr_invoked)].engine
              /\ ocr_ret.text = strip(ocr_invoked[Len(ocr_invoked)].out.text)

C25_Witness ==
    /\ ocr_pc = "done"
    /\ ocr_ret.success
    /\ Len(ocr_invoked) = 2
    /\ ocr_invoked[1].out = EngineText(<<" ">>)
    /\ ocr_ret.engine_used = ocr_invoked[2].engine
    /\ ocr_ret.text = long_text

(* C29: get_best_engine returns the name of a loaded engine.               *)
C29_BestEngineIsLoaded ==
    ocr_best # "unset" => ocr_best \in engines

----------------------------------------------------------------------------
(* OCREngine: one call on one recognizer table                              *)

MaxBoxes == 2

BoxTexts == { <<"N", "E", "T">>, <<"n", "e", "t">>, <<"N", "E", ".", "T">>,
              <<" ", "N", "E", "T", "T">>, <<" ">> }
BoxConfs == {-10, 295, 955, 1000}
OcrBoxes == {OcrBox(t, c) : t \in BoxTexts, c \in BoxConfs}
OcrTables == UNION {[1..n -> OcrBoxes] : n \in 0..MaxBoxes}
TargetTexts == { <<"N", "E", "T">>, <<"T", "E", "N">> }

InitRead ==
    /\ InitRetryVars
    /\ InitActionVars
    /\ InitMouseVars
    /\ InitDetectorVars
    /\ InitOcrVars({})
    /\ OCR_AVAILABLE \in BOOLEAN
    /\ rs_pc = "in"
    /\ rs_data \in OcrTables
    /\ rs_results = <<>>
    /\ rs_op = "none"
    /\ InitBackoffVars
    /\ InitSequenceVars
    /\ InitLocateVars
    /\ InitAnalyzeVars

NextRead ==
    \/ ReadScreenText
    \/ \E target_text \in TargetTexts, fuzzy \in BOOLEAN :
          FindTextLocation(target_text, fuzzy)

SpecRead == InitRead /\ [][NextRead]_vars

InUnitInterval(confidence) == 0 <= confidence /\ confidence <= 100

(* C9: every confidence the pipeline produces lies in [0, 1] (0..100 in    *)
(* hundredths): the one extract_text returns, those of the entries of      *)
(* read_screen_text and find_text_location, and those of the detector's    *)
(* candidate elements.                                                     *)
C9_ConfidencesInUnitInterval ==
    /\ ocr_pc = "done" => InUnitInterval(ocr_ret.confidence)
    /\ rs_pc = "out" =>
          \A i \in 1..Len(rs_results) : InUnitInterval(rs_results[i].confidence)
    /\ dd_pc = "out" =>
          \A i \in 1..Len(dd_output) : InUnitInterval(dd_output[i].confidence)

----------------------------------------------------------------------------
(* Backoff: the waits _calculate_wait_time gives over the attempts of a run *)

MaxBackoffAttempts == 8

(* random.uniform(0.8, 1.2), in percent                                    *)
BackoffJitters == {80 + 4 * i : i \in 0..10}

InitBackoff ==
    /\ InitRetryVars
    /\ InitActionVars
    /\ InitMouseVars
    /\ InitDetectorVars
    /\ InitOcrVars({})
    /\ InitReadVars
    /\ InitSequenceVars
    /\ InitLocateVars
    /\ InitAnalyzeVars
    /\ bo_type \in FailureType
    /\ bo_attempt = 0
    /\ bo_prev = -1
    /\ bo_wait = -1

(* The wait of the next failed attempt, with its own jitter.               *)
CalculateWaitTime(jitter) ==
    /\ bo_attempt < MaxBackoffAttempts
    /\ bo_prev' = bo_wait
    /\ bo_wait' = calculate_wait_time(bo_attempt, bo_type, jitter)
    /\ bo_attempt' = bo_attempt + 1
    /\ UNCHANGED <<bo_type, retryVars, actionVars, mouseVars, detectorVars, ocrVars,
                   readVars, sequenceVars, locateVars, analyzeVars>>

NextBackoff == \E jitter \in BackoffJitters : CalculateWaitTime(jitter)

SpecBackoff == InitBackoff /\ [][NextBackoff]_vars

(* C11: with TIMEOUT at every attempt, each wait is strictly greater than  *)
(* the one before, whatever the two jitters, until a wait is the 30 s cap; *)
(* after a capped wait every wait is the cap.                              *)
C11_TimeoutBackoffIncreasesThenCapped ==
    (bo_type = TIMEOUT /\ bo_prev >= 0) =>
        /\ bo_prev < max_wait_time_ms => bo_wait > bo_prev
        /\ bo_prev = max_wait_time_ms => bo_wait = max_wait_time_ms
        /\ bo_wait <= max_wait_time_ms

C11_Witness ==
    /\ bo_type = TIMEOUT
    /\ bo_attempt = MaxBackoffAttempts
    /\ bo_prev = max_wait_time_ms
    /\ bo_wait = max_wait_time_ms

----------------------------------------------------------------------------
(* ActionSystem.execute_action over every action type, and the click and   *)
(* drag handlers down to the mouse controller                               *)

ActionTypeStrings == ActionType \cup {"bogus"}
DragStartXs == {-1, 1}
DragEndYs == {1, ScreenHeight}

(* execute_action('click', x=x, y=y) or with button=MouseButton.LEFT:      *)
(* _execute_click calls self.mouse.click and drops what it returns.        *)
ExecuteClick(x, y, button_is_enum, move_os, click_os) ==
    /\ action_calls < MaxCalls
    /\ LET m == mouse_click_from_action(mouse_available, x, y, button_is_enum,
                                        move_os, click_os)
           r == execute_action(action_history, CLICK, "ok",
                               IF m.ret THEN "true" ELSE "false", clock + 1)
       IN /\ click_target' = <<x, y>>
          /\ click_results' = Append(click_results, m.ret)
          /\ click_events' = m.os
          /\ action_history' = r.history
          /\ action_result' = ActionOutcome(r)
    /\ clock' = clock + 1
    /\ action_calls' = action_calls + 1
    /\ UNCHANGED <<mouse_available, click_pc, click_max, click_attempt, click_ret,
                   retryVars, detectorVars, ocrVars, readVars, backoffVars,
                   sequenceVars, locateVars, analyzeVars>>

(* execute_action('drag', start_x=.., start_y=.., end_x=.., end_y=..):     *)
(* _execute_drag calls self.mouse.drag_and_drop and drops what it returns. *)
ExecuteDrag(start_x, start_y, end_x, end_y, move_os, drag_os) ==
    /\ action_calls < MaxCalls
    /\ LET m == mouse_drag(mouse_available, start_x, start_y, end_x, end_y,
                           move_os, drag_os)
           r == execute_action(action_history, DRAG, "ok",
                               IF m.ret THEN "true" ELSE "false", clock + 1)
       IN /\ click_target' = IF validate_coordinates(start_x, start_y)
                               THEN <<end_x, end_y>> ELSE <<start_x, start_y>>
          /\ click_results' = Append(click_results, m.ret)
          /\ click_events' = m.os
          /\ action_history' = r.history
          /\ action_result' = ActionOutcome(r)
    /\ clock' = clock + 1
    /\ action_calls' = action_calls + 1
    /\ UNCHANGED <<mouse_available, click_pc, click_max, click_attempt, click_ret,
                   retryVars, detectorVars, ocrVars, readVars, backoffVars,
                   sequenceVars, locateVars, analyzeVars>>

InitAction ==
    /\ InitRetryVars
    /\ InitActionVars
    /\ mouse_available \in BOOLEAN
    /\ click_pc = "idle"
    /\ click_target = <<0, 0>>
    /\ click_max = 0
    /\ click_attempt = 0
    /\ click_results = <<>>
    /\ click_events = <<>>
    /\ click_ret = FALSE
    /\ InitDetectorVars
    /\ InitOcrVars({})
    /\ InitReadVars
    /\ InitBackoffVars
    /\ InitSequenceVars
    /\ InitLocateVars
    /\ InitAnalyzeVars

NextAction ==
    \/ \E t \in ActionTypeStrings, a \in ArgsKinds, ctl \in ControllerOutcomes :
          ExecuteAction(t, a, ctl)
    \/ \E x \in ClickXs, y \in ClickYs, b \in BOOLEAN, m \in BOOLEAN, c \in BOOLEAN :
          ExecuteClick(x, y, b, m, c)
    \/ \E sx \in DragStartXs, ey \in DragEndYs, m \in BOOLEAN, c \in BOOLEAN :
          ExecuteDrag(sx, 1, 1, ey, m, c)

SpecAction == InitAction /\ [][NextAction]_vars

C14_EveryCallRecorded ==
    [][action_calls' = action_calls + 1
         => Len(action_history') = Len(action_history) + 1]_vars

(* The point a click or drag step was aimed at lies off the screen.        *)
OutOfBounds(p) == ~validate_coordinates(p[1], p[2])

(* C17: a click or drag action aimed outside the screen issues no OS call  *)
(* and yields success = false, and whenever the mouse controller returned  *)
(* false the ActionResult has success = false.                             *)
C17_ControllerFailureIsActionFailure ==
    [][Len(click_results') = Len(click_results) + 1
         => /\ OutOfBounds(click_target')
                => (click_events' = <<>> /\ ~action_result'.success)
            /\ ~click_results'[Len(click_results')]
                => ~action_result'.success]_vars

----------------------------------------------------------------------------
(* ActionSystem.execute_sequence                                            *)

MaxSeqLen == 3
default_delay_ms == 500
NoDelay == <<>>                               \* the dict has no 'delay' key
Delay(ms) == <<ms>>                           \* 'delay': ms / 1000

(* An action dict: has_type = action.get('type') is truthy.                *)
SeqAction(has_type, type, args, ctl, delay) ==
    [has_type |-> has_type, type |-> type, args |-> args, ctl |-> ctl, delay |-> delay]

(* params = every key but 'type': a 'delay' key goes to the handler as a   *)
(* keyword.  wait and scroll swallow it, press_hotkey has a delay          *)
(* parameter, the other controller methods do not take it.                 *)
sequence_params(action) ==
    IF action.args = "ok" /\ action.delay # NoDelay
          /\ action.type \in ForwardsKwargs \ {HOTKEY}
      THEN "extra"
      ELSE action.args

(* action.get('delay', self.config['default_delay']), slept when > 0 and   *)
(* the action is not the last of the list.                                 *)
sequence_delay(action, i, n) ==
    IF i < n
      THEN LET delay == IF action.delay = NoDelay THEN default_delay_ms
                        ELSE action.delay[1]
           IN IF delay > 0 THEN delay ELSE 0
      ELSE 0

SeqActions ==
    { SeqAction(FALSE, "", "ok", "true", NoDelay),
      SeqAction(TRUE, WAIT, "ok", "true", NoDelay),
      SeqAction(TRUE, WAIT, "ok", "true", Delay(0)),
      SeqAction(TRUE, HOTKEY, "ok", "true", Delay(200)),
      SeqAction(TRUE, WAIT, "missing", "true", NoDelay),
      SeqAction(TRUE, WINDOW_OPEN, "ok", "false", NoDelay),
      SeqAction(TRUE, CLICK, "ok", "true", Delay(200)),
      SeqAction(TRUE, "bogus", "ok", "true", NoDelay) }

SeqLists == UNION { [1..n -> SeqActions] : n \in 0..MaxSeqLen }

(* execute_sequence(actions) is called.                                    *)
ExecuteSequence_Begin(actions) ==
    /\ seq_pc = "idle"
    /\ seq_actions' = actions
    /\ seq_index' = 1
    /\ seq_results' = <<>>
    /\ seq_executed' = <<>>
    /\ seq_pc' = IF actions = <<>> THEN "returned" ELSE "loop"
    /\ UNCHANGED <<stop_on_failure, retryVars, actionVars, mouseVars, detectorVars,
                   ocrVars, readVars, backoffVars, locateVars, analyzeVars>>

(* One iteration of the for loop.                                          *)
ExecuteSequence_Step ==
    /\ seq_pc = "loop"
    /\ LET action == seq_actions[seq_index]
           n == Len(seq_actions)
           last == seq_index = n
       IN IF ~action.has_type
            THEN /\ seq_results' = Append(seq_results, ActionResultValue(FALSE))
                 /\ seq_pc' = IF last THEN "returned" ELSE "loop"
                 /\ UNCHANGED <<seq_executed, actionVars>>
            ELSE LET r == execute_action(action_history, action.type,
                                         sequence_params(action), action.ctl, clock + 1)
                     stop == ~r.success /\ stop_on_failure
                 IN /\ seq_results' = Append(seq_results, ActionResultValue(r.success))
                    /\ seq_executed' = Append(seq_executed,
                          [index |-> seq_index,
                           slept |-> IF stop THEN 0
                                     ELSE sequence_delay(action, seq_index, n)])
                    /\ seq_pc' = IF stop \/ last THEN "returned" ELSE "loop"
                    /\ action_history' = r.history
                    /\ action_result' = ActionOutcome(r)
                    /\ clock' = clock + 1
                    /\ action_calls' = action_calls + 1
    /\ seq_index' = seq_index + 1
    /\ UNCHANGED <<stop_on_failure, seq_actions, retryVars, mouseVars, detectorVars,
                   ocrVars, readVars, backoffVars, locateVars, analyzeVars>>

InitSequence ==
    /\ InitRetryVars
    /\ InitActionVars
    /\ InitMouseVars
    /\ InitDetectorVars
    /\ InitOcrVars({})
    /\ InitReadVars
    /\ InitBackoffVars
    /\ stop_on_failure \in BOOLEAN
    /\ seq_pc = "idle"
    /\ seq_actions = <<>>
    /\ seq_index = 0
    /\ seq_results = <<>>
    /\ seq_executed = <<>>
    /\ InitLocateVars
    /\ InitAnalyzeVars

NextSequence ==
    \/ \E actions \in SeqLists : ExecuteSequence_Begin(actions)
    \/ ExecuteSequence_Step

SpecSequence == InitSequence /\ [][NextSequence]_vars

(* C15: the actions are processed in list order, one result per action     *)
(* processed; with stop_on_failure, a result with success = false is the   *)
(* last result and no action after it is handed to execute_action, also    *)
(* when the failed entry is one without a 'type'.                          *)
C15_StopsAtFirstFailure ==
    /\ \A k \in 1..Len(seq_executed) :
          /\ seq_executed[k].index <= Len(seq_results)
          /\ k > 1 => seq_executed[k - 1].index < seq_executed[k].index
    /\ stop_on_failure =>
          \A i \in 1..Len(seq_results) :
              ~seq_results[i].success =>
                  /\ i = Len(seq_results)
                  /\ \A k \in 1..Len(seq_executed) : seq_executed[k].index <= i

(* C27: an action's 'delay' only sets the pause after that action (its own *)
(* delay when present, else the default, none after the last action or     *)
(* when the sequence stops); it is no parameter of the handler, so the     *)
(* action's result is that of the same action without 'delay'.             *)
C27_DelayOnlySetsThePause ==
    \A k \in 1..Len(seq_executed) :
        LET i == seq_executed[k].index
            action == seq_actions[i]
            alone == execute_action(<<>>, action.type, action.args, action.ctl, 0)
            pause == IF action.delay = NoDelay THEN default_delay_ms
                     ELSE action.delay[1]
        IN /\ seq_results[i].success = alone.success
           /\ seq_executed[k].slept
                 = IF i = Len(seq_actions) \/ (stop_on_failure /\ ~seq_results[i].success)
                   THEN 0 ELSE pause

----------------------------------------------------------------------------
(* IntelligentRetryManager.optimize_retry_parameters                        *)

MaxRecorded == 20
OptimizeOutcomes == {OpResult(TRUE, <<>>, NoType), OpValue(FALSE, "None")}

(* failure_stats after s runs of "find_element" that succeeded at the      *)
(* first attempt and f exhausted runs of "type_text".                      *)
RECURSIVE StatsAfter(_, _)
StatsAfter(s, f) ==
    IF f > 0 THEN record_failure(StatsAfter(s, f - 1), "type_text")
    ELSE IF s > 0 THEN record_success(StatsAfter(s - 1, 0), "find_element", 0)
    ELSE NoParameters

OptimizeRetryParameters ==
    /\ retry_pc \in {"idle", "returned"}
    /\ max_retries' = optimize_retry_parameters(failure_stats, max_retries)
    /\ UNCHANGED <<failure_stats, retry_pc, context, attempt, last_result, retry_ret,
                   events, op_outcomes, wait_time, runs, op_source, action_args,
                   actionVars, mouseVars, detectorVars, ocrVars, readVars, backoffVars,
                   sequenceVars, locateVars, analyzeVars>>

InitOptimize ==
    /\ max_retries = default_max_retries
    /\ \E s \in 0..MaxRecorded, f \in 0..MaxRecorded :
          /\ s + f <= MaxRecorded
          /\ failure_stats = StatsAfter(s, f)
    /\ retry_pc = "idle"
    /\ context = RetryContext("", NoParameters)
    /\ attempt = 0
    /\ last_result = NoneVal
    /\ retry_ret = NoneVal
    /\ events = <<>>
    /\ op_outcomes = <<>>
    /\ wait_time = 0
    /\ runs = 0
    /\ op_source = "callable"
    /\ action_args = "ok"
    /\ InitActionVars
    /\ InitMouseVars
    /\ InitDetectorVars
    /\ InitOcrVars({})
    /\ InitReadVars
    /\ InitBackoffVars
    /\ InitSequenceVars
    /\ InitLocateVars
    /\ InitAnalyzeVars

NextOptimize ==
    \/ OptimizeRetryParameters
    \/ \E t \in OperationTypes : ExecuteWithRetry_Begin(t)
    \/ \E o \in OptimizeOutcomes : ExecuteWithRetry_Attempt(o, 100, <<0, 0>>)

SpecOptimize == InitOptimize /\ [][NextOptimize]_vars

RecordedOperations == total_operations(failure_stats)
RecordedSuccesses == total_success(failure_stats)

(* C18: max_retries stays within 3..8; a call of optimize_retry_parameters *)
(* leaves it alone below 10 recorded operations and for a success rate in  *)
(* [0.7, 0.95], raises it by one up to 8 for a rate below 0.7 and lowers   *)
(* it by one down to 3 for a rate above 0.95; execute_with_retry does not  *)
(* change it.                                                              *)
C18_OptimizeKeepsRetriesInRange ==
    /\ [](max_retries \in 3..8)
    /\ [][IF retry_pc \in {"idle", "returned"} /\ retry_pc' = retry_pc
            THEN IF RecordedOperations < 10 THEN max_retries' = max_retries
                 ELSE IF 10 * RecordedSuccesses < 7 * RecordedOperations
                   THEN max_retries' = (IF max_retries < 8 THEN max_retries + 1 ELSE 8)
                 ELSE IF 100 * RecordedSuccesses > 95 * RecordedOperations
                   THEN max_retries' = (IF max_retries > 3 THEN max_retries - 1 ELSE 3)
                 ELSE max_retries' = max_retries
            ELSE max_retries' = max_retries]_vars

C18_Witness ==
    /\ max_retries = 8
    /\ runs = MaxRuns
    /\ retry_pc = "returned"
    /\ RecordedOperations >= 10
    /\ 10 * RecordedSuccesses < 7 * RecordedOperations

----------------------------------------------------------------------------
(* VisionSystem.locate_element_precisely                                    *)
(* Confidences and match scores of this section are in thousandths.        *)

MaxMatches == 2
MaxFeatures == 1
padding == 10

(* A position dict as OCREngine and the feature detectors build it.        *)
Position(x, y, w, h) ==
    [x |-> x, y |-> y, width |-> w, height |-> h,
     center_x |-> x + w \div 2, center_y |-> y + h \div 2]

(* An entry of find_text_location's result, as far as it is read here.     *)
TextMatch(x, y, match_score) ==
    [text |-> <<"N", "E", "T">>, position |-> Position(x, y, 9, 5),
     match_score |-> match_score]

Point(x, y) == [x |-> x, y |-> y]

expand_button_area(text_pos) ==
    [x |-> Max2(0, text_pos.x - padding),
     y |-> Max2(0, text_pos.y - padding),
     width |-> text_pos.width + 2 * padding,
     height |-> text_pos.height + 2 * padding,
     center_x |-> text_pos.center_x,
     center_y |-> text_pos.center_y]

(* match_score * 0.9                                                       *)
find_button_by_text(text_matches) ==
    [i \in 1..Len(text_matches) |->
        [position |-> expand_button_area(text_matches[i].position),
         confidence |-> (text_matches[i].match_score * 9) \div 10,
         detection_method |-> "text_recognition",
         element_type |-> "button"]]

(* A candidate of _find_button_by_features.                                *)
FeatureButton(x, y, w, h, button_score) ==
    [position |-> Position(x, y, w, h), confidence |-> button_score,
     detection_method |-> "feature_analysis", element_type |-> "button"]

(* find_button(image, button_text) with a non-empty button_text.           *)
find_button(text_matches, generic_buttons) ==
    sort_by_confidence(
        deduplicate_elements(find_button_by_text(text_matches) \o generic_buttons))

convert_text_to_element(text_match) ==
    [position |-> text_match.position, confidence |-> text_match.match_score,
     detection_method |-> "text_recognition", element_type |-> "text"]

(* find_element for a description parsed as a button or as a text.         *)
find_element(available, element_type, text_matches, generic_buttons) ==
    IF ~available THEN <<>>
    ELSE IF element_type = "button" THEN find_button(text_matches, generic_buttons)
    ELSE [i \in 1..Len(text_matches) |-> convert_text_to_element(text_matches[i])]

(* max(elements, key = confidence): the first of the maximal ones.         *)
max_by_confidence(elements) ==
    elements[CHOOSE i \in 1..Len(elements) :
                /\ \A j \in 1..Len(elements) :
                      elements[j].confidence <= elements[i].confidence
                /\ \A j \in 1..(i - 1) :
                      elements[j].confidence < elements[i].confidence]

locate_element_precisely(elements) ==
    IF Len(elements) = 0 THEN NoneVal
    ELSE LET pos == max_by_confidence(elements).position
         IN Point(pos.center_x, pos.center_y)

TextXs == {4, 12}
TextYs == {6, 40}
MatchScores == {500, 1000}
TextMatches == {TextMatch(x, y, m) : x \in TextXs, y \in TextYs, m \in MatchScores}
TextMatchLists == UNION {[1..n -> TextMatches] : n \in 0..MaxMatches}
FeatureButtons == {FeatureButton(0, 0, 29, 25, 600), FeatureButton(0, 0, 29, 25, 900),
                   FeatureButton(50, 30, 21, 11, 900)}
FeatureLists == UNION {[1..n -> FeatureButtons] : n \in 0..MaxFeatures}
ElementTypes == {"button", "text"}

LocateElementPrecisely(available, element_type, text_matches, generic_buttons) ==
    /\ loc_pc = "in"
    /\ LET elements == find_element(available, element_type, text_matches,
                                    generic_buttons)
       IN /\ loc_elements' = elements
          /\ loc_ret' = locate_element_precisely(elements)
    /\ loc_pc' = "out"
    /\ UNCHANGED <<retryVars, actionVars, mouseVars, detectorVars, ocrVars, readVars,
                   backoffVars, sequenceVars, analyzeVars>>

InitLocate ==
    /\ InitRetryVars
    /\ InitActionVars
    /\ InitMouseVars
    /\ InitDetectorVars
    /\ InitOcrVars({})
    /\ InitReadVars
    /\ InitBackoffVars
    /\ InitSequenceVars
    /\ InitLocateVars
    /\ InitAnalyzeVars

NextLocate ==
    \E available \in BOOLEAN, element_type \in ElementTypes,
       text_matches \in TextMatchLists, generic_buttons \in FeatureLists :
        LocateElementPrecisely(available, element_type, text_matches, generic_buttons)

SpecLocate == InitLocate /\ [][NextLocate]_vars

Centroid(pos) == Point(pos.x + pos.width \div 2, pos.y + pos.height \div 2)

(* C19: locate_element_precisely returns none exactly when find_element    *)
(* found no candidate; otherwise it returns the centroid                   *)
(* (x + width // 2, y + height // 2) of the box of a candidate of maximal  *)
(* confidence, expanded text candidates included.                          *)
C19_ReturnsCentroidOfBest ==
    loc_pc = "out" =>
        /\ IsNone(loc_ret) <=> loc_elements = <<>>
        /\ loc_elements # <<>> =>
              \E i \in 1..Len(loc_elements) :
                  /\ \A j \in 1..Len(loc_elements) :
                        loc_elements[j].confidence <= loc_elements[i].confidence
                  /\ loc_ret = Centroid(loc_elements[i].position)

----------------------------------------------------------------------------
(* IntelligentRetryManager._analyze_failure on results of all shapes        *)

MaxWords == 2

w_Not     == <<"N","o","t">>
w_found   == <<"f","o","u","n","d">>
w_Element == <<"E","l","e","m","e","n","t">>
w_CLICK   == <<"C","L","I","C","K">>
w_OCR     == <<"O","C","R">>
w_context == <<"c","o","n","t","e","x","t">>
w_Timeout == <<"T","i","m","e","o","u","t">>
w_runtime == <<"r","u","n","t","i","m","e">>
w_Access  == <<"A","c","c","e","s","s">>

Words == {w_Not, w_found, w_Element, kw_element, w_CLICK, kw_mouse, w_OCR,
          w_context, kw_recognition, w_Timeout, w_runtime, kw_network,
          kw_permission, w_Access, msg_busy}

RECURSIVE JoinWords(_)
JoinWords(ws) ==
    IF Len(ws) = 0 THEN <<>>
    ELSE IF Len(ws) = 1 THEN ws[1]
    ELSE ws[1] \o <<" ">> \o JoinWords(Tail(ws))

AnalyzeMessages == {JoinWords(ws) : ws \in UNION {[1..n -> Words] : n \in 0..MaxWords}}
AnalyzeTags == {NoType, INPUT_FAILED, TIMEOUT, UNKNOWN}

AnalyzeFailure(result) ==
    /\ af_pc = "in"
    /\ af_result' = result
    /\ af_type' = analyze_failure(result)
    /\ af_pc' = "out"
    /\ UNCHANGED <<retryVars, actionVars, mouseVars, detectorVars, ocrVars, readVars,
                   backoffVars, sequenceVars, locateVars>>

InitAnalyze ==
    /\ InitRetryVars
    /\ InitActionVars
    /\ InitMouseVars
    /\ InitDetectorVars
    /\ InitOcrVars({})
    /\ InitReadVars
    /\ InitBackoffVars
    /\ InitSequenceVars
    /\ InitLocateVars
    /\ InitAnalyzeVars

NextAnalyze ==
    \E message \in AnalyzeMessages, failure_type \in AnalyzeTags :
        AnalyzeFailure(OperationResult(FALSE, message, "payload", failure_type))

SpecAnalyze == InitAnalyze /\ [][NextAnalyze]_vars

(* The keyword groups in the stated order.                                 *)
KeywordGroups ==
    << [type |-> ELEMENT_NOT_FOUND, keywords |-> {kw_not_found, kw_element}],
       [type |-> CLICK_FAILED,      keywords |-> {kw_click, kw_mouse}],
       [type |-> OCR_FAILED,        keywords |-> {kw_ocr, kw_text, kw_recognition}],
       [type |-> TIMEOUT,           keywords |-> {kw_timeout, kw_time}],
       [type |-> NETWORK_ERROR,     keywords |-> {kw_network, kw_connection}],
       [type |-> PERMISSION_DENIED, keywords |-> {kw_permission, kw_access}] >>

GroupsHit(message) ==
    {g \in 1..Len(KeywordGroups) :
        \E k \in KeywordGroups[g].keywords : Contains(lower(message), k)}

(* C22: _analyze_failure returns the explicit failure_type when one is     *)
(* set; otherwise the type of the first keyword group, in the stated       *)
(* order, with a keyword contained in the lower-cased message, and UNKNOWN *)
(* exactly when no keyword of any group is contained.                      *)
C22_ExplicitTagThenFirstKeywordGroup ==
    af_pc = "out" =>
        IF af_result.failure_type # NoType
        THEN af_type = af_result.failure_type
        ELSE LET hits == GroupsHit(af_result.message)
             IN /\ (af_type = UNKNOWN) <=> (hits = {})
                /\ hits # {} =>
                      \E g \in hits :
                          /\ \A h \in hits : g <= h
                          /\ af_type = KeywordGroups[g].type

C22_Witness ==
    /\ af_pc = "out"
    /\ af_result.failure_type = NoType
    /\ af_result.message = w_CLICK \o <<" ">> \o w_Element
    /\ af_type = ELEMENT_NOT_FOUND

====
